---------------------------- MODULE Spec2Model ----------------------------
(***************************************************************************)
(* A model of the app-hub web client: the public Listing Directory         *)
(* (HomePage), the Listing Detail page (AppDetailPage), the Login page and *)
(* the Admin Console (AdminDashboard), together with the parts of the      *)
(* managed backend they talk to (the apps and app_versions tables, the     *)
(* auth session, the spreadsheet webhook) and the browser's local storage. *)
(*                                                                         *)
(* Every event handler is one action.  A backend call made by a handler    *)
(* either succeeds or returns an error; the outcome is an input of the     *)
(* action, and the action follows the branch the code takes for it.        *)
(*                                                                         *)
(* Texts (names, descriptions, search strings) are sequences of one-       *)
(* character strings, so that toLowerCase() and includes() are computed.   *)
(* Ratings are kept in tenths (4.8 is 48).                                 *)
(***************************************************************************)
EXTENDS Integers, Sequences, FiniteSets, TLC

(***************************************************************************)
(* Bounds of the model.                                                    *)
(***************************************************************************)
\* number of listing identifiers the backend can hand out
MaxApps == 2
\* number of backend writes in one behaviour (the backend's clock ticks once per write)
MaxWrites == 3
\* number of Listing Detail pages open at once (one per browser)
MaxClients == 2
\* longest search string and longest listing text in the filter model
MaxLen == 3

\* the most handleStatusChange / handleDelete calls awaiting their response
MaxInFlight == 2

\* the most screenshots the bucket takes within a behaviour
MaxScreenshots == 6

(***************************************************************************)
(* Texts of the built-in sample data.                                      *)
(***************************************************************************)
TxtNexusBrowser ==
  <<
    "N","e","x","u","s"," ","B","r","o","w","s","e","r" >>

TxtPixelEditor ==
  <<
    "P","i","x","e","l"," ","E","d","i","t","o","r" >>

TxtSpaceRunner ==
  <<
    "S","p","a","c","e"," ","R","u","n","n","e","r" >>

TxtCryptoWallet ==
  <<
    "C","r","y","p","t","o"," ","W","a","l","l","e","t" >>

TxtNexusLabs ==
  <<
    "N","e","x","u","s"," ","L","a","b","s" >>

TxtCreativeApps ==
  <<
    "C","r","e","a","t","i","v","e"," ","A","p","p","s" >>

TxtNebulaGames ==
  <<
    "N","e","b","u","l","a"," ","G","a","m","e","s" >>

TxtFinTechInc ==
  <<
    "F","i","n","T","e","c","h"," ","I","n","c" >>

TxtHomeDescBrowser ==
  <<
    "T","h","e"," ","f","a","s","t","e","s","t"," ","b","r","o","w","s","e","r"," ","f","o","r",
    " ","t","h","e"," ","m","o","d","e","r","n"," ","w","e","b"," ","w","i","t","h"," ","b","u",
    "i","l","t","-","i","n"," ","a","d"," ","b","l","o","c","k","i","n","g"," ","a","n","d"," ",
    "p","r","i","v","a","c","y"," ","f","e","a","t","u","r","e","s","." >>

TxtHomeDescEditor ==
  <<
    "P","r","o","f","e","s","s","i","o","n","a","l"," ","p","h","o","t","o"," ","e","d","i","t",
    "i","n","g"," ","t","o","o","l","s"," ","i","n"," ","t","h","e"," ","p","a","l","m"," ","o",
    "f"," ","y","o","u","r"," ","h","a","n","d","."," ","F","i","l","t","e","r","s",","," ","l",
    "a","y","e","r","s",","," ","a","n","d"," ","m","o","r","e","." >>

TxtHomeDescRunner ==
  <<
    "A","n"," ","e","n","d","l","e","s","s"," ","r","u","n","n","e","r"," ","t","h","r","o","u",
    "g","h"," ","t","h","e"," ","g","a","l","a","x","y","."," ","C","o","l","l","e","c","t"," ",
    "c","o","i","n","s"," ","a","n","d"," ","u","p","g","r","a","d","e"," ","y","o","u","r"," ",
    "s","p","a","c","e","s","h","i","p","." >>

TxtAdminDescBrowser ==
  <<
    "A"," ","f","a","s","t"," ","b","r","o","w","s","e","r","." >>

TxtAdminDescWallet ==
  <<
    "S","e","c","u","r","e"," ","y","o","u","r"," ","a","s","s","e","t","s","." >>

TxtDetailDescBrowser ==
  <<
    "T","h","e"," ","f","a","s","t","e","s","t"," ","b","r","o","w","s","e","r"," ","f","o","r",
    " ","t","h","e"," ","m","o","d","e","r","n"," ","w","e","b"," ","w","i","t","h"," ","b","u",
    "i","l","t","-","i","n"," ","a","d"," ","b","l","o","c","k","i","n","g"," ","a","n","d"," ",
    "p","r","i","v","a","c","y"," ","f","e","a","t","u","r","e","s","."," ","E","x","p","e","r",
    "i","e","n","c","e"," ","t","h","e"," ","w","e","b"," ","l","i","k","e"," ","n","e","v","e",
    "r"," ","b","e","f","o","r","e"," ","w","i","t","h"," ","l","i","g","h","t","n","i","n","g",
    "-","f","a","s","t"," ","p","a","g","e"," ","l","o","a","d","s",","," ","s","e","c","u","r",
    "e"," ","b","r","o","w","s","i","n","g",","," ","a","n","d"," ","a"," ","c","u","s","t","o",
    "m","i","z","a","b","l","e"," ","i","n","t","e","r","f","a","c","e"," ","t","h","a","t"," ",
    "a","d","a","p","t","s"," ","t","o"," ","y","o","u","r"," ","n","e","e","d","s",".","\n",
    "\n","K","e","y"," ","F","e","a","t","u","r","e","s",":","\n","-"," ","B","u","i","l","t",
    "-","i","n"," ","A","d"," ","B","l","o","c","k","e","r","\n","-"," ","E","n","h","a","n",
    "c","e","d"," ","P","r","i","v","a","c","y"," ","P","r","o","t","e","c","t","i","o","n",
    "\n","-"," ","C","u","s","t","o","m","i","z","a","b","l","e"," ","T","h","e","m","e","s",
    "\n","-"," ","C","r","o","s","s","-","d","e","v","i","c","e"," ","S","y","n","c","\n","-",
    " ","D","e","v","e","l","o","p","e","r"," ","T","o","o","l","s"," ","I","n","t","e","g","r",
    "a","t","i","o","n" >>

(***************************************************************************)
(* Text operations: String.prototype.toLowerCase and .includes.            *)
(***************************************************************************)
UpperChars ==
  << "A","B","C","D","E","F","G","H","I","J","K","L","M",
     "N","O","P","Q","R","S","T","U","V","W","X","Y","Z" >>

LowerChars ==
  << "a","b","c","d","e","f","g","h","i","j","k","l","m",
     "n","o","p","q","r","s","t","u","v","w","x","y","z" >>

ToLowerChar(c) ==
  IF \E i \in 1..Len(UpperChars) : UpperChars[i] = c
  THEN LowerChars[CHOOSE i \in 1..Len(UpperChars) : UpperChars[i] = c]
  ELSE c

\* a comparison that leaves the case of both texts as typed
ToLowerCase_AsTyped(s) == s

RECURSIVE ToLowerCase(_)
ToLowerCase(s) ==
  IF s = << >> THEN << >> ELSE << ToLowerChar(Head(s)) >> \o ToLowerCase(Tail(s))

\* t.includes(s): s occurs in t as a contiguous run of characters
Includes(t, s) ==
  \E i \in 0..(Len(t) - Len(s)) : SubSeq(t, i + 1, i + Len(s)) = s

(***************************************************************************)
(* Values.                                                                 *)
(***************************************************************************)
\* null / undefined
Null == [null |-> TRUE]

\* the result of a query that matched no row
NoRow == [norow |-> TRUE]

\* localStorage.getItem of an absent key
NoItem == "<absent>"

AppIdPool == << "a1", "a2", "a3", "a4" >>

\* the identifiers the backend assigns to inserted listings
AppIds == { AppIdPool[i] : i \in 1..MaxApps }

\* an identifier that names no listing (a mistyped or stale /app/:id link)
UnknownId == "zz"

Clients == 1..MaxClients

Statuses == { "pending", "published", "rejected" }

\* AppRecord (types.ts), without icon_url and size; screenshots is empty
\* unless a submission fills it
AppRecord(id, name, description, category, apk_url, rating, downloads, developer, version, created_at, updated_at, status) ==
  [ id |-> id, name |-> name, description |-> description,
    category |-> category, apk_url |-> apk_url, rating |-> rating,
    downloads |-> downloads, developer |-> developer, version |-> version,
    created_at |-> created_at, updated_at |-> updated_at, status |-> status,
    screenshots |-> << >> ]

\* AppVersion (types.ts)
AppVersion(id, app_id, version, release_notes, apk_url, created_at) ==
  [ id |-> id, app_id |-> app_id, version |-> version,
    release_notes |-> release_notes, apk_url |-> apk_url,
    created_at |-> created_at ]

\* Review (types.ts), without user_name and comment; rating in tenths
Review(id, app_id, rating, created_at) ==
  [ id |-> id, app_id |-> app_id, rating |-> rating, created_at |-> created_at ]

(***************************************************************************)
(* The built-in sample data the pages fall back to when a fetch fails.     *)
(* t stands for new Date() at the time of the fallback.                    *)
(***************************************************************************)
\* the sample rows' timestamps: when the fallback happened is not tracked
MockTime == 0

HomeMockApps(t) ==
  << AppRecord("1", TxtNexusBrowser, TxtHomeDescBrowser, "Tools", "#", 48, 12500,
               TxtNexusLabs, "2.4.0", t, t, "published"),
     AppRecord("2", TxtPixelEditor, TxtHomeDescEditor, "Productivity", "#", 45, 8900,
               TxtCreativeApps, "1.2.1", t, t, "published"),
     AppRecord("3", TxtSpaceRunner, TxtHomeDescRunner, "Games", "#", 49, 50000,
               TxtNebulaGames, "3.0.5", t, t, "published") >>

AdminMockApps(t) ==
  << AppRecord("1", TxtNexusBrowser, TxtAdminDescBrowser, "Tools", "#", 48, 12500,
               TxtNexusLabs, "2.4.0", t, t, "published"),
     AppRecord("4", TxtCryptoWallet, TxtAdminDescWallet, "Finance", "#", 0, 0,
               TxtFinTechInc, "1.0.0", t, t, "pending") >>

DetailMockApp(id, t) ==
  [ AppRecord(IF id = "" THEN "1" ELSE id, TxtNexusBrowser, TxtDetailDescBrowser,
              "Tools", "#", 48, 12500, TxtNexusLabs, "2.4.0", t, t, "published")
      EXCEPT !.screenshots = << "https://picsum.photos/seed/s1/800/450",
                                "https://picsum.photos/seed/s2/800/450",
                                "https://picsum.photos/seed/s3/800/450" >> ]

(***************************************************************************)
(* State.                                                                  *)
(***************************************************************************)
VARIABLES
  \* the backend: tables apps, app_versions and reviews, its clock, the number
  \* of listing identifiers handed out, the auth session of the admin's browser
  dbApps, dbVersions, dbReviews, now, dbSeq, session,
  \* the storage bucket 'apps': the number of objects under each folder
  storage,
  \* the payloads posted to the spreadsheet webhook, in order
  sheet,
  \* localStorage items nexus_demo_session and nexus_biometric_cred, and the
  \* router's location
  demoSession, biometricCred, route,
  \* LoginPage
  email, password, error,
  \* AdminDashboard
  adminMounted, apps, loading, isModalOpen, editingApp, uploading,
  isHistoryModalOpen, selectedAppForHistory, appVersions, historyLoading,
  adminSearchQuery, lastAlert,
  \* AdminDashboard: the handleStatusChange and handleDelete calls that have
  \* sent their request and not yet run their continuation
  inflight,
  \* AdminDashboard: the handleSubmit call in progress, step by step
  submit,
  \* HomePage
  homeApps, homeLoading, searchQuery, selectedCategory,
  \* AppDetailPage, one per client: [id, app, loading]
  detail

backendVars == << dbApps, dbVersions, dbReviews, storage, now, dbSeq, sheet >>

authVars == << session, demoSession, biometricCred, route, email, password, error >>

adminVars ==
  << adminMounted, apps, loading, isModalOpen, editingApp, uploading,
     isHistoryModalOpen, selectedAppForHistory, appVersions, historyLoading,
     adminSearchQuery, lastAlert, inflight, submit >>

homeVars == << homeApps, homeLoading, searchQuery, selectedCategory >>

vars == << backendVars, authVars, adminVars, homeVars, detail >>

(***************************************************************************)
(* The backend gateway: select / insert / update / delete.                 *)
(***************************************************************************)
\* .order('created_at', { ascending: false })
RECURSIVE OrderDesc(_)
OrderDesc(S) ==
  IF S = {} THEN << >>
  ELSE LET m == CHOOSE r \in S : \A q \in S : q.created_at <= r.created_at
       IN  << m >> \o OrderDesc(S \ {m})

StoredApps == { dbApps[i] : i \in AppIds } \ { NoRow }

Stored(id) == id \in AppIds /\ dbApps[id] # NoRow

\* from('apps').select('*').order('created_at', desc)
SelectAllApps == OrderDesc(StoredApps)

\* the directory's query without .eq('status', 'published')
SelectPublishedApps_NoStatusFilter == OrderDesc(StoredApps)

\* from('apps').select('*').eq('status', 'published').order('created_at', desc)
SelectPublishedApps == OrderDesc({ r \in StoredApps : r.status = "published" })

\* from('app_versions').select('*').eq('app_id', id).order('created_at', desc)
SelectVersions(id) == OrderDesc({ v \in dbVersions : v.app_id = id })

\* from('apps').update(patch).eq('id', id): a row that is not there is not
\* an error, the update matches nothing
UpdateApp(id, patch) ==
  IF Stored(id)
  THEN [ dbApps EXCEPT ![id] =
           [ f \in DOMAIN dbApps[id] |->
               IF f \in DOMAIN patch THEN patch[f] ELSE dbApps[id][f] ] ]
  ELSE dbApps

\* a delete without its .eq('id', id) filter
DeleteApp_NoFilter(id) == [ i \in AppIds |-> NoRow ]

\* from('apps').delete().eq('id', id)
DeleteApp(id) ==
  IF Stored(id) THEN [ dbApps EXCEPT ![id] = NoRow ] ELSE dbApps

\* the clock value at the start of every behaviour: the initial stores hold
\* rows written at times 1..6
InitNow == Len(AppIdPool) + 3

\* k more writes fit into the behaviour
CanWrite(k) == now + k <= InitNow + MaxWrites

(***************************************************************************)
(* AdminDashboard.                                                         *)
(***************************************************************************)
\* no handleSubmit call is in progress
NoSubmit == [ pc |-> "idle" ]

\* the state of a freshly constructed AdminDashboard (the useState defaults)
AdminConstructed ==
  /\ apps = << >>
  /\ loading = TRUE
  /\ isModalOpen = FALSE
  /\ editingApp = Null
  /\ uploading = FALSE
  /\ isHistoryModalOpen = FALSE
  /\ selectedAppForHistory = Null
  /\ appVersions = << >>
  /\ historyLoading = FALSE
  /\ adminSearchQuery = << >>
  /\ lastAlert = "none"
  /\ inflight = {}
  /\ submit = NoSubmit

\* leaving /admin unmounts the component; the next visit constructs it anew
AdminUnmount ==
  /\ adminMounted' = FALSE
  /\ apps' = << >>
  /\ loading' = TRUE
  /\ isModalOpen' = FALSE
  /\ editingApp' = Null
  /\ uploading' = FALSE
  /\ isHistoryModalOpen' = FALSE
  /\ selectedAppForHistory' = Null
  /\ appVersions' = << >>
  /\ historyLoading' = FALSE
  /\ adminSearchQuery' = << >>
  /\ lastAlert' = "none"
  \* the continuations of an unmounted component set no state
  /\ inflight' = {}
  /\ submit' = NoSubmit

\* a check that looks at the backend session only
CheckAuthRedirects_SessionOnly == session = FALSE

\* checkAuth: redirect unless there is a session or the demo marker is 'true'
CheckAuthRedirects ==
  LET isDemoSession == (demoSession = "true")
  IN  session = FALSE /\ ~isDemoSession

\* fetchApps: the rows the admin's list holds afterwards
FetchAppsResult(ok) == IF ok THEN SelectAllApps ELSE AdminMockApps(MockTime)

\* the mount effect: checkAuth(); fetchApps(); (fetchSettings is not modelled)
AdminMount(fetchOk) ==
  /\ route = "/admin"
  /\ ~adminMounted
  /\ IF CheckAuthRedirects
     THEN /\ route' = "/login"
          /\ AdminUnmount
     ELSE /\ route' = route
          /\ adminMounted' = TRUE
          /\ apps' = FetchAppsResult(fetchOk)
          /\ loading' = FALSE
          /\ UNCHANGED << isModalOpen, editingApp, uploading, isHistoryModalOpen,
                          selectedAppForHistory, appVersions, historyLoading,
                          adminSearchQuery, lastAlert, inflight, submit >>
  /\ UNCHANGED << backendVars, session, demoSession, biometricCred, email, password, error,
                  submit, homeVars, detail >>

\* the console's filter if it also looked into the description
MatchesAdmin_WithDescription(app) ==
  \/ Includes(ToLowerCase(app.name), ToLowerCase(adminSearchQuery))
  \/ Includes(ToLowerCase(app.description), ToLowerCase(adminSearchQuery))
  \/ Includes(ToLowerCase(app.developer), ToLowerCase(adminSearchQuery))

\* apps.filter(...) of AdminDashboard
MatchesAdmin(app) ==
  \/ Includes(ToLowerCase(app.name), ToLowerCase(adminSearchQuery))
  \/ Includes(ToLowerCase(app.developer), ToLowerCase(adminSearchQuery))

RECURSIVE FilterAdmin(_)
FilterAdmin(list) ==
  IF list = << >> THEN << >>
  ELSE IF MatchesAdmin(Head(list)) THEN << Head(list) >> \o FilterAdmin(Tail(list))
       ELSE FilterAdmin(Tail(list))

adminFilteredApps == FilterAdmin(apps)

\* a modal is a full-screen overlay above the page: the page's own buttons
\* cannot be clicked while one is shown
HistoryModalShown == isHistoryModalOpen /\ selectedAppForHistory # Null

ModalShown == isModalOpen \/ HistoryModalShown

\* the rows whose action buttons are on screen: the dashboard table (when not
\* loading) shows every row, the review queue shows the pending ones
RowShown(i) ==
  /\ adminMounted
  /\ ~ModalShown
  /\ i \in 1..Len(apps)
  /\ \/ ~loading /\ MatchesAdmin(apps[i])
     \/ apps[i].status = "pending"

\* apps.map(app => app.id === id ? { ...app, status: newStatus } : app)
RECURSIVE MapStatus(_, _, _)
MapStatus(list, id, newStatus) ==
  IF list = << >> THEN << >>
  ELSE << IF Head(list).id = id
          THEN [ Head(list) EXCEPT !.status = newStatus ]
          ELSE Head(list) >> \o MapStatus(Tail(list), id, newStatus)

\* apps.filter(app => app.id !== id)
RECURSIVE FilterOutId(_, _)
FilterOutId(list, id) ==
  IF list = << >> THEN << >>
  ELSE IF Head(list).id = id THEN FilterOutId(Tail(list), id)
       ELSE << Head(list) >> \o FilterOutId(Tail(list), id)

\* what syncToGoogleSheet posts: the listing's fields and an action tag
\* (kept here: the fields the properties read)
SheetPayload(id, version, status, action) ==
  [ id |-> id, version |-> version, status |-> status, action |-> action ]

\* syncToGoogleSheet(data): a failed POST is logged and ignored
SyncToGoogleSheet(data, syncOk) == IF syncOk THEN Append(sheet, data) ELSE sheet

\* a local update that is taken back when the notifier fails
AppsAfterStatusChange_UndoneOnSyncFailure(list, id, newStatus, syncOk) ==
  IF syncOk THEN MapStatus(list, id, newStatus) ELSE list

\* setApps(apps.map(...)) comes before the notifier call, and
\* syncToGoogleSheet catches its own failures: the outcome of the notifier
\* has no part in the local update
AppsAfterStatusChange(list, id, newStatus, syncOk) == MapStatus(list, id, newStatus)

\* handleStatusChange(id, newStatus)
HandleStatusChange(id, newStatus, ok, syncOk) ==
  /\ adminMounted
  /\ IF ok
     THEN /\ CanWrite(1)
          /\ dbApps' = UpdateApp(id, [ status |-> newStatus, updated_at |-> now ])
          /\ now' = now + 1
          /\ apps' = AppsAfterStatusChange(apps, id, newStatus, syncOk)
          /\ LET found == { i \in 1..Len(apps) : apps[i].id = id }
             IN  IF found # {}
                 THEN LET updatedApp == apps[CHOOSE i \in found : \A j \in found : i <= j]
                      IN  sheet' = SyncToGoogleSheet(
                                     SheetPayload(updatedApp.id, updatedApp.version,
                                                  newStatus, "status_update"), syncOk)
                 ELSE sheet' = sheet
     ELSE UNCHANGED << dbApps, now, apps, sheet >>
  /\ UNCHANGED << dbVersions, dbReviews, storage, dbSeq, authVars, adminMounted, loading, isModalOpen,
                  editingApp, uploading, isHistoryModalOpen, selectedAppForHistory,
                  appVersions, historyLoading, adminSearchQuery, lastAlert,
                  inflight, submit, homeVars, detail >>

\* the Approve buttons (dashboard row, review queue): the only callers of
\* handleStatusChange, shown on rows whose local status is pending
ApproveClick(i, ok, syncOk) ==
  /\ RowShown(i)
  /\ apps[i].status = "pending"
  /\ HandleStatusChange(apps[i].id, "published", ok, syncOk)

\* a gate that goes on whatever the admin answers
Proceeds_WhateverTheAnswer(confirmed) == TRUE

\* if (!confirm(...)) return;
Proceeds(confirmed) == confirmed

\* handleDelete(id), from the row's delete button
HandleDelete(i, confirmed, ok) ==
  /\ RowShown(i)
  /\ IF Proceeds(confirmed) /\ ok
     THEN /\ CanWrite(1)
          /\ dbApps' = DeleteApp(apps[i].id)
          /\ now' = now + 1
          /\ apps' = FilterOutId(apps, apps[i].id)
     ELSE UNCHANGED << dbApps, now, apps >>
  /\ UNCHANGED << dbVersions, dbReviews, storage, dbSeq, sheet, authVars, adminMounted, loading,
                  isModalOpen, editingApp, uploading, isHistoryModalOpen,
                  selectedAppForHistory, appVersions, historyLoading,
                  adminSearchQuery, lastAlert, inflight, submit, homeVars, detail >>

\* The two handlers above run a call whose response arrives before the admin
\* does anything else.  The handlers are async: between the request and the
\* continuation after the await the page stays in use.  The three steps of
\* such a call follow.  A call keeps the apps of the render its button was
\* clicked in (the closure of the handler) and the timestamp it sent.
Call(op, id, newStatus) ==
  [ op |-> op, id |-> id, status |-> newStatus, updated_at |-> now,
    apps |-> apps, answer |-> "none" ]

\* handleStatusChange up to its await: the request is sent
HandleStatusChangeSend(id, newStatus) ==
  /\ adminMounted
  /\ Cardinality(inflight) < MaxInFlight
  /\ inflight' = inflight \cup { Call("status", id, newStatus) }
  /\ UNCHANGED << backendVars, authVars, adminMounted, apps, loading, isModalOpen,
                  editingApp, uploading, isHistoryModalOpen, selectedAppForHistory,
                  appVersions, historyLoading, adminSearchQuery, lastAlert,
                  submit, homeVars, detail >>

ApproveClickSend(i) ==
  /\ RowShown(i)
  /\ apps[i].status = "pending"
  /\ HandleStatusChangeSend(apps[i].id, "published")

\* handleDelete up to its await: confirm(), then the request is sent
HandleDeleteSend(i, confirmed) ==
  /\ RowShown(i)
  /\ IF Proceeds(confirmed)
     THEN /\ Cardinality(inflight) < MaxInFlight
          /\ inflight' = inflight \cup { Call("delete", apps[i].id, "") }
     ELSE inflight' = inflight
  /\ UNCHANGED << backendVars, authVars, adminMounted, apps, loading, isModalOpen,
                  editingApp, uploading, isHistoryModalOpen, selectedAppForHistory,
                  appVersions, historyLoading, adminSearchQuery, lastAlert,
                  submit, homeVars, detail >>

\* the backend executes the request of call c, or fails it
BackendAnswers(c, ok) ==
  /\ c \in inflight
  /\ c.answer = "none"
  /\ IF ok
     THEN /\ CanWrite(1)
          /\ dbApps' = IF c.op = "status"
                       THEN UpdateApp(c.id, [ status |-> c.status,
                                              updated_at |-> c.updated_at ])
                       ELSE DeleteApp(c.id)
          /\ now' = now + 1
     ELSE UNCHANGED << dbApps, now >>
  /\ inflight' = (inflight \ { c })
                   \cup { [ c EXCEPT !.answer = IF ok THEN "ok" ELSE "error" ] }
  /\ UNCHANGED << dbVersions, dbReviews, storage, dbSeq, sheet, authVars, adminMounted, apps,
                  loading, isModalOpen, editingApp, uploading, isHistoryModalOpen,
                  selectedAppForHistory, appVersions, historyLoading,
                  adminSearchQuery, lastAlert, submit, homeVars, detail >>

\* handleStatusChange after its await, with the apps of its closure
HandleStatusChangeResume(c, syncOk) ==
  /\ c \in inflight
  /\ c.op = "status"
  /\ c.answer # "none"
  /\ IF c.answer = "ok"
     THEN /\ apps' = MapStatus(c.apps, c.id, c.status)
          /\ LET found == { i \in 1..Len(c.apps) : c.apps[i].id = c.id }
             IN  IF found # {}
                 THEN LET updatedApp == c.apps[CHOOSE i \in found : \A j \in found : i <= j]
                      IN  sheet' = SyncToGoogleSheet(
                                     SheetPayload(updatedApp.id, updatedApp.version,
                                                  c.status, "status_update"), syncOk)
                 ELSE sheet' = sheet
     ELSE UNCHANGED << apps, sheet >>
  /\ inflight' = inflight \ { c }
  /\ UNCHANGED << dbApps, dbVersions, dbReviews, storage, now, dbSeq, authVars, adminMounted,
                  loading, isModalOpen, editingApp, uploading, isHistoryModalOpen,
                  selectedAppForHistory, appVersions, historyLoading,
                  adminSearchQuery, lastAlert, submit, homeVars, detail >>

\* a continuation that filters the list whatever the answer was
AppsAfterDelete_WhateverTheAnswer(c) == FilterOutId(c.apps, c.id)

\* if (error) throw error; setApps(apps.filter(app => app.id !== id))
AppsAfterDelete(c) ==
  IF c.answer = "ok" THEN FilterOutId(c.apps, c.id) ELSE apps

\* handleDelete after its await, with the apps of its closure
HandleDeleteResume(c) ==
  /\ c \in inflight
  /\ c.op = "delete"
  /\ c.answer # "none"
  /\ apps' = AppsAfterDelete(c)
  /\ inflight' = inflight \ { c }
  /\ UNCHANGED << backendVars, authVars, adminMounted, loading, isModalOpen,
                  editingApp, uploading, isHistoryModalOpen, selectedAppForHistory,
                  appVersions, historyLoading, adminSearchQuery, lastAlert,
                  submit, homeVars, detail >>

\* the "Upload App" button: setEditingApp(null); setIsModalOpen(true)
OpenCreate ==
  /\ adminMounted
  /\ ~ModalShown
  /\ editingApp' = Null
  /\ isModalOpen' = TRUE
  /\ UNCHANGED << backendVars, authVars, adminMounted, apps, loading, uploading,
                  isHistoryModalOpen, selectedAppForHistory, appVersions,
                  historyLoading, adminSearchQuery, lastAlert, inflight, submit, homeVars, detail >>

\* a row's edit button: setEditingApp(app); setIsModalOpen(true)
OpenEdit(i) ==
  /\ RowShown(i)
  /\ editingApp' = apps[i]
  /\ isModalOpen' = TRUE
  /\ UNCHANGED << backendVars, authVars, adminMounted, apps, loading, uploading,
                  isHistoryModalOpen, selectedAppForHistory, appVersions,
                  historyLoading, adminSearchQuery, lastAlert, inflight, submit, homeVars, detail >>

\* the form's Cancel / X button: setIsModalOpen(false)
CloseModal ==
  /\ adminMounted
  /\ isModalOpen
  /\ isModalOpen' = FALSE
  /\ UNCHANGED << backendVars, authVars, adminMounted, apps, loading, editingApp,
                  uploading, isHistoryModalOpen, selectedAppForHistory, appVersions,
                  historyLoading, adminSearchQuery, lastAlert, inflight, submit, homeVars, detail >>

\* what the admin can enter in the form
FormName == << "T", "e", "s", "t", " ", "A", "p", "p" >>

FormDeveloper == << "D", "e", "v" >>

FormDescription == << "A", "n", " ", "a", "p", "p" >>

FormVersions == { "1.0.0" }

FormReleaseNotes == { "", "Bug fixes" }

FormApkUrl == "https://x/app.apk"

\* the public URL uploadFile returns for an uploaded package
UploadedApkUrl == "https://storage/apps/apks/0.42.apk"

Forms ==
  [ name : { FormName }, developer : { FormDeveloper },
    description : { FormDescription }, category : { "Tools" },
    version : FormVersions, apk_url : { FormApkUrl },
    release_notes : FormReleaseNotes, icon_file : { FALSE }, apk_file : BOOLEAN,
    screenshot_files : { 0 } ]

\* the public URL uploadFile returns for an uploaded screenshot
UploadedScreenshotUrl == "https://storage/apps/screenshots/0.17.png"

\* the number of files attached to the form
Uploads(form) ==
  (IF form.icon_file THEN 1 ELSE 0) + (IF form.apk_file THEN 1 ELSE 0)
    + form.screenshot_files

HasUploads(form) == Uploads(form) > 0

\* the bucket after every attached file of the form has been uploaded
StorageAfterUploads(form) ==
  [ icons |-> storage.icons + (IF form.icon_file THEN 1 ELSE 0),
    apks |-> storage.apks + (IF form.apk_file THEN 1 ELSE 0),
    screenshots |-> storage.screenshots + form.screenshot_files ]

\* the files of the form fit into the bucket within the behaviour
CanStore(form) ==
  /\ storage.icons + storage.apks + (IF form.icon_file THEN 1 ELSE 0)
       + (IF form.apk_file THEN 1 ELSE 0) <= 1 + MaxWrites
  /\ storage.screenshots + form.screenshot_files <= MaxScreenshots

\* [...screenshots, ...newScreenshots]
ScreenshotsAfter(editing, n) ==
  (IF editing # Null THEN editing.screenshots ELSE << >>)
    \o [ k \in 1..n |-> UploadedScreenshotUrl ]

SaveErrorAlert ==
  "Error saving app. Make sure your Supabase Storage bucket \"apps\" is created and public."

\* handleSubmit(e), run without anything else happening before it returns.
\* fail names the first backend call that returns an error: "upload" (the
\* first uploadFile of the submission), "write" (the insert or update of the
\* listing), "version" (the insert into app_versions), or "none".
HandleSubmit(form, fail, fetchOk, syncOk) ==
  /\ adminMounted
  /\ isModalOpen
  /\ ~uploading
  /\ submit = NoSubmit
  /\ fail = "upload" => HasUploads(form)
  /\ LET apk_url == IF form.apk_file THEN UploadedApkUrl ELSE form.apk_url
         screenshots == ScreenshotsAfter(editingApp, form.screenshot_files)
         status  == IF editingApp # Null THEN editingApp.status ELSE "pending"
         editing == editingApp # Null
         newId   == AppIdPool[dbSeq + 1]
         appId   == IF editing THEN editingApp.id ELSE newId
         written ==
           IF editing
           THEN UpdateApp(appId,
                  [ name |-> form.name, developer |-> form.developer,
                    description |-> form.description, category |-> form.category,
                    version |-> form.version, apk_url |-> apk_url,
                    screenshots |-> screenshots,
                    status |-> status, updated_at |-> now ])
           ELSE [ dbApps EXCEPT ![newId] =
                    [ AppRecord(newId, form.name, form.description, form.category,
                                apk_url, 0, 0, form.developer, form.version,
                                now, now, status)
                        EXCEPT !.screenshots = screenshots ] ]
         releaseNotes == form.release_notes
         versionRow ==
           AppVersion(now + 1, appId, form.version,
                      IF releaseNotes # "" THEN releaseNotes ELSE "Initial release",
                      apk_url, now + 1)
     IN  IF fail \in { "upload", "write" }
         THEN /\ lastAlert' = SaveErrorAlert
              /\ fail = "write" => CanStore(form)
              /\ storage' = IF fail = "upload" THEN storage
                            ELSE StorageAfterUploads(form)
              /\ UNCHANGED << dbApps, dbVersions, now, dbSeq, sheet, apps,
                              isModalOpen, editingApp >>
         ELSE /\ ~editing => dbSeq < MaxApps
              /\ CanStore(form)
              /\ storage' = StorageAfterUploads(form)
              /\ dbApps' = written
              /\ dbSeq' = IF editing THEN dbSeq ELSE dbSeq + 1
              /\ IF fail = "version"
                 THEN /\ CanWrite(1)
                      /\ dbVersions' = dbVersions
                      /\ now' = now + 1
                 ELSE /\ CanWrite(2)
                      /\ dbVersions' = dbVersions \cup { versionRow }
                      /\ now' = now + 2
              \* await fetchApps(), reading the tables as just written
              /\ apps' = IF fetchOk
                         THEN OrderDesc({ written[i] : i \in AppIds } \ { NoRow })
                         ELSE AdminMockApps(MockTime)
              /\ isModalOpen' = FALSE
              /\ editingApp' = Null
              /\ sheet' = SyncToGoogleSheet(
                            SheetPayload("<none>", form.version, status,
                                         IF editing THEN "update" ELSE "create"),
                            syncOk)
              /\ lastAlert' = lastAlert
  /\ loading' = IF fail \in { "upload", "write" } THEN loading ELSE FALSE
  /\ UNCHANGED << dbReviews, authVars, adminMounted, uploading, isHistoryModalOpen,
                  selectedAppForHistory, appVersions, historyLoading,
                  adminSearchQuery, inflight, submit, homeVars, detail >>

\* handleSubmit step by step: each await is a request that the backend
\* answers in a later step.  submit holds the call in progress: the form, the
\* editingApp of the render the form was submitted in, the state of each
\* screenshot upload, and the steps taken so far.

\* the await the handler reaches next, once the stage named done is behind it
NextStage_WriteAtOnce(form, done) == "write"

NextStage(form, done) ==
  IF done = "start" /\ form.icon_file THEN "icon"
  ELSE IF done \in { "start", "icon" } /\ form.apk_file THEN "apk"
  ELSE IF done \in { "start", "icon", "apk" } /\ form.screenshot_files > 0 THEN "shots"
  ELSE "write"

\* the handler runs on to that await and sends its request (for the
\* screenshots: Promise.all over map sends every upload at once)
Go(call, done) ==
  LET stage == NextStage(call.form, done)
  IN  [ call EXCEPT
          !.pc = stage,
          !.shots = IF stage = "shots"
                    THEN [ k \in 1..call.form.screenshot_files |-> "sent" ]
                    ELSE @,
          !.log = Append(@, << stage, "sent" >>) ]

\* the catch and finally blocks: alert, setUploading(false); the modal and
\* editingApp are not touched
Catch_ClosesModal ==
  /\ lastAlert' = SaveErrorAlert
  /\ uploading' = FALSE
  /\ isModalOpen' = FALSE
  /\ editingApp' = Null

Catch ==
  /\ lastAlert' = SaveErrorAlert
  /\ uploading' = FALSE
  /\ UNCHANGED << isModalOpen, editingApp >>

\* the form is submitted: setUploading(true), then on to the first await
SubmitStart(form) ==
  /\ adminMounted
  /\ isModalOpen
  /\ ~uploading
  /\ submit = NoSubmit
  /\ CanStore(form)
  /\ uploading' = TRUE
  /\ submit' = Go([ pc |-> "start", form |-> form, editing |-> editingApp,
                    shots |-> << >>, appId |-> "", log |-> << >> ], "start")
  /\ UNCHANGED << backendVars, authVars, adminMounted, apps, loading, isModalOpen,
                  editingApp, isHistoryModalOpen, selectedAppForHistory, appVersions,
                  historyLoading, adminSearchQuery, lastAlert, inflight, homeVars,
                  detail >>

\* the upload of the icon or of the package is answered
UploadAnswers(ok) ==
  /\ submit.pc \in { "icon", "apk" }
  /\ IF ok
     THEN /\ storage' = IF submit.pc = "icon"
                        THEN [ storage EXCEPT !.icons = @ + 1 ]
                        ELSE [ storage EXCEPT !.apks = @ + 1 ]
          /\ submit' = Go([ submit EXCEPT !.log = Append(@, << submit.pc, "done" >>) ],
                          submit.pc)
          /\ UNCHANGED << lastAlert, uploading, isModalOpen, editingApp >>
     ELSE /\ Catch
          /\ submit' = NoSubmit
          /\ storage' = storage
  /\ UNCHANGED << dbApps, dbVersions, dbReviews, now, dbSeq, sheet, authVars,
                  adminMounted, apps, loading, isHistoryModalOpen,
                  selectedAppForHistory, appVersions, historyLoading,
                  adminSearchQuery, inflight, homeVars, detail >>

\* the upload of screenshot k is answered.  Promise.all resolves when the last
\* one succeeds and rejects at the first failure; the uploads still on their
\* way then complete after the handler has returned.
ShotAnswers(k, ok) ==
  /\ submit.pc \in { "shots", "aborted" }
  /\ k \in 1..Len(submit.shots)
  /\ submit.shots[k] = "sent"
  /\ LET shots == [ submit.shots EXCEPT ![k] = IF ok THEN "done" ELSE "failed" ]
         waiting == \E j \in 1..Len(shots) : shots[j] = "sent"
         after == [ submit EXCEPT !.shots = shots,
                                  !.log = Append(@, << "shots", IF ok THEN "done"
                                                                ELSE "failed" >>) ]
     IN  /\ storage' = IF ok THEN [ storage EXCEPT !.screenshots = @ + 1 ] ELSE storage
         /\ IF submit.pc = "aborted"
            THEN /\ submit' = IF waiting THEN after ELSE NoSubmit
                 /\ UNCHANGED << lastAlert, uploading, isModalOpen, editingApp >>
            ELSE IF ok
                 THEN /\ submit' = IF waiting THEN after ELSE Go(after, "shots")
                      /\ UNCHANGED << lastAlert, uploading, isModalOpen, editingApp >>
                 ELSE /\ Catch
                      /\ submit' = IF waiting THEN [ after EXCEPT !.pc = "aborted" ]
                                   ELSE NoSubmit
  /\ UNCHANGED << dbApps, dbVersions, dbReviews, now, dbSeq, sheet, authVars,
                  adminMounted, apps, loading, isHistoryModalOpen,
                  selectedAppForHistory, appVersions, historyLoading,
                  adminSearchQuery, inflight, homeVars, detail >>

\* appData of the call, with the URLs of the uploads
SubmitApkUrl(call) == IF call.form.apk_file THEN UploadedApkUrl ELSE call.form.apk_url

SubmitStatus(call) == IF call.editing # Null THEN call.editing.status ELSE "pending"

\* the insert or update of the listing is answered
WriteAnswers(ok) ==
  /\ submit.pc = "write"
  /\ LET form == submit.form
         editing == submit.editing # Null
         newId == AppIdPool[dbSeq + 1]
         appId == IF editing THEN submit.editing.id ELSE newId
         screenshots == ScreenshotsAfter(submit.editing, form.screenshot_files)
     IN  IF ok
         THEN /\ CanWrite(1)
              /\ ~editing => dbSeq < MaxApps
              /\ dbApps' =
                   IF editing
                   THEN UpdateApp(appId,
                          [ name |-> form.name, developer |-> form.developer,
                            description |-> form.description,
                            category |-> form.category, version |-> form.version,
                            apk_url |-> SubmitApkUrl(submit),
                            screenshots |-> screenshots,
                            status |-> SubmitStatus(submit), updated_at |-> now ])
                   ELSE [ dbApps EXCEPT ![newId] =
                            [ AppRecord(newId, form.name, form.description,
                                        form.category, SubmitApkUrl(submit), 0, 0,
                                        form.developer, form.version, now, now,
                                        SubmitStatus(submit))
                                EXCEPT !.screenshots = screenshots ] ]
              /\ dbSeq' = IF editing THEN dbSeq ELSE dbSeq + 1
              /\ now' = now + 1
              /\ submit' = [ submit EXCEPT
                               !.pc = "version", !.appId = appId,
                               !.log = @ \o << << "write", "done" >>,
                                              << "version", "sent" >> >> ]
              /\ UNCHANGED << lastAlert, uploading, isModalOpen, editingApp >>
         ELSE /\ Catch
              /\ submit' = NoSubmit
              /\ UNCHANGED << dbApps, dbSeq, now >>
  /\ UNCHANGED << dbVersions, dbReviews, storage, sheet, authVars, adminMounted, apps,
                  loading, isHistoryModalOpen, selectedAppForHistory, appVersions,
                  historyLoading, adminSearchQuery, inflight, homeVars, detail >>

\* the insert into app_versions is answered; its result is not looked at
VersionAnswers(ok) ==
  /\ submit.pc = "version"
  /\ IF ok
     THEN /\ CanWrite(1)
          /\ dbVersions' = dbVersions \cup
               { AppVersion(now, submit.appId, submit.form.version,
                            IF submit.form.release_notes # ""
                            THEN submit.form.release_notes ELSE "Initial release",
                            SubmitApkUrl(submit), now) }
          /\ now' = now + 1
     ELSE UNCHANGED << dbVersions, now >>
  /\ submit' = [ submit EXCEPT
                   !.pc = "fetch",
                   !.log = @ \o << << "version", IF ok THEN "done" ELSE "failed" >>,
                                  << "fetch", "sent" >> >> ]
  /\ UNCHANGED << dbApps, dbReviews, storage, dbSeq, sheet, authVars, adminMounted, apps,
                  loading, isModalOpen, editingApp, uploading, isHistoryModalOpen,
                  selectedAppForHistory, appVersions, historyLoading,
                  adminSearchQuery, lastAlert, inflight, homeVars, detail >>

\* fetchApps is answered; then setIsModalOpen(false), setEditingApp(null)
\* and the notifier's POST is sent
FetchAnswers(fetchOk) ==
  /\ submit.pc = "fetch"
  /\ apps' = FetchAppsResult(fetchOk)
  /\ loading' = FALSE
  /\ isModalOpen' = FALSE
  /\ editingApp' = Null
  /\ submit' = [ submit EXCEPT
                   !.pc = "sync",
                   !.log = @ \o << << "fetch", "done" >>, << "modal", "closed" >>,
                                  << "notifier", "sent" >> >> ]
  /\ UNCHANGED << backendVars, authVars, adminMounted, uploading, isHistoryModalOpen,
                  selectedAppForHistory, appVersions, historyLoading,
                  adminSearchQuery, lastAlert, inflight, homeVars, detail >>

\* action: editingApp ? 'update' : 'create'
ActionTag_AlwaysCreate(editing) == "create"

ActionTag(editing) == IF editing # Null THEN "update" ELSE "create"

\* the notifier's POST is answered; finally setUploading(false)
SyncAnswers(syncOk) ==
  /\ submit.pc = "sync"
  /\ sheet' = SyncToGoogleSheet(
                SheetPayload("<none>", submit.form.version, SubmitStatus(submit),
                             ActionTag(submit.editing)), syncOk)
  /\ uploading' = FALSE
  /\ submit' = NoSubmit
  /\ UNCHANGED << dbApps, dbVersions, dbReviews, storage, now, dbSeq, authVars,
                  adminMounted, apps, loading, isModalOpen, editingApp,
                  isHistoryModalOpen, selectedAppForHistory, appVersions,
                  historyLoading, adminSearchQuery, lastAlert, inflight, homeVars,
                  detail >>

\* fetchHistory(app), from a row's history button.  On an error the catch
\* block only logs: appVersions keeps what it held.
FetchHistory(i, ok) ==
  /\ RowShown(i)
  /\ selectedAppForHistory' = apps[i]
  /\ isHistoryModalOpen' = TRUE
  /\ appVersions' = IF ok THEN SelectVersions(apps[i].id) ELSE appVersions
  /\ historyLoading' = FALSE
  /\ UNCHANGED << backendVars, authVars, adminMounted, apps, loading, isModalOpen,
                  editingApp, uploading, adminSearchQuery, lastAlert, inflight, submit, homeVars,
                  detail >>

\* the history modal's Close / X button
CloseHistory ==
  /\ adminMounted
  /\ HistoryModalShown
  /\ isHistoryModalOpen' = FALSE
  /\ UNCHANGED << backendVars, authVars, adminMounted, apps, loading, isModalOpen,
                  editingApp, uploading, selectedAppForHistory, appVersions,
                  historyLoading, adminSearchQuery, lastAlert, inflight, submit, homeVars, detail >>

\* the history modal lists appVersions when it is not loading; entry 1 (index 0)
\* carries the "Current" badge, the others a Rollback button
HistoryListShown == adminMounted /\ HistoryModalShown /\ ~historyLoading

MarkedCurrent(j) == HistoryListShown /\ j \in 1..Len(appVersions) /\ j = 1

RollbackOffered(j) == HistoryListShown /\ j \in 1..Len(appVersions) /\ j # 1

\* handleRollback(version), from the Rollback button of entry j
HandleRollback(j, confirmed, ok, fetchOk) ==
  /\ RollbackOffered(j)
  /\ LET version == appVersions[j]
     IN  IF ~Proceeds(confirmed)
         THEN UNCHANGED << dbApps, now, apps, loading, isHistoryModalOpen, lastAlert >>
         ELSE IF ok
              THEN /\ CanWrite(1)
                   /\ dbApps' = UpdateApp(selectedAppForHistory.id,
                                  [ version |-> version.version,
                                    apk_url |-> version.apk_url,
                                    updated_at |-> now ])
                   /\ now' = now + 1
                   /\ lastAlert' = "Rollback successful!"
                   \* await fetchApps(), reading the table as just written
                   /\ apps' = IF fetchOk
                              THEN OrderDesc({ dbApps'[i] : i \in AppIds } \ { NoRow })
                              ELSE AdminMockApps(MockTime)
                   /\ isHistoryModalOpen' = FALSE
                   /\ loading' = FALSE
              ELSE /\ lastAlert' = "Rollback failed."
                   /\ loading' = FALSE
                   /\ UNCHANGED << dbApps, now, apps, isHistoryModalOpen >>
  /\ UNCHANGED << dbVersions, dbReviews, storage, dbSeq, sheet, authVars, adminMounted, isModalOpen,
                  editingApp, uploading, selectedAppForHistory, appVersions,
                  historyLoading, adminSearchQuery, inflight, submit, homeVars, detail >>

(***************************************************************************)
(* HomePage: the public directory.                                         *)
(***************************************************************************)
categories ==
  << "All", "Games", "Productivity", "Social", "Tools", "Education", "Finance" >>

\* a visitor opens (or reloads) the directory: the component is constructed
HomeOpen ==
  /\ ~homeLoading
  /\ homeApps' = << >>
  /\ homeLoading' = TRUE
  /\ searchQuery' = << >>
  /\ selectedCategory' = "All"
  /\ UNCHANGED << backendVars, authVars, adminVars, detail >>

\* fetchApps of HomePage, run by the mount effect
HomeFetchApps(ok) ==
  /\ homeLoading
  /\ homeApps' = IF ok THEN SelectPublishedApps ELSE HomeMockApps(MockTime)
  /\ homeLoading' = FALSE
  /\ UNCHANGED << backendVars, authVars, adminVars, searchQuery, selectedCategory,
                  detail >>

\* the search box and the category buttons
SetSearchQuery(s) ==
  /\ ~homeLoading
  /\ searchQuery' = s
  /\ UNCHANGED << backendVars, authVars, adminVars, homeApps, homeLoading,
                  selectedCategory, detail >>

SetSelectedCategory(c) ==
  /\ ~homeLoading
  /\ selectedCategory' = c
  /\ UNCHANGED << backendVars, authVars, adminVars, homeApps, homeLoading,
                  searchQuery, detail >>

\* the admin console's search box
SetAdminSearchQuery(s) ==
  /\ adminMounted
  /\ adminSearchQuery' = s
  /\ UNCHANGED << backendVars, authVars, adminMounted, apps, loading, isModalOpen,
                  editingApp, uploading, isHistoryModalOpen, selectedAppForHistory,
                  appVersions, historyLoading, lastAlert, inflight, submit, homeVars, detail >>

\* the directory's filter without the 'All' sentinel
MatchesHome_NoAllSentinel(app) ==
  LET matchesSearch ==
        \/ Includes(ToLowerCase(app.name), ToLowerCase(searchQuery))
        \/ Includes(ToLowerCase(app.description), ToLowerCase(searchQuery))
      matchesCategory == app.category = selectedCategory
  IN  matchesSearch /\ matchesCategory

\* apps.filter(...) of HomePage
MatchesHome(app) ==
  LET matchesSearch ==
        \/ Includes(ToLowerCase(app.name), ToLowerCase(searchQuery))
        \/ Includes(ToLowerCase(app.description), ToLowerCase(searchQuery))
      matchesCategory == selectedCategory = "All" \/ app.category = selectedCategory
  IN  matchesSearch /\ matchesCategory

RECURSIVE FilterHome(_)
FilterHome(list) ==
  IF list = << >> THEN << >>
  ELSE IF MatchesHome(Head(list)) THEN << Head(list) >> \o FilterHome(Tail(list))
       ELSE FilterHome(Tail(list))

filteredApps == FilterHome(homeApps)

(***************************************************************************)
(* AppDetailPage, one per client.                                          *)
(***************************************************************************)
DetailClosed == [ open |-> FALSE, id |-> "", app |-> Null, loading |-> FALSE ]

\* a visitor follows /app/:id : the component is constructed
DetailOpen(c, id) ==
  /\ ~detail[c].loading
  /\ detail' = [ detail EXCEPT ![c] =
                   [ open |-> TRUE, id |-> id, app |-> Null, loading |-> TRUE ] ]
  /\ UNCHANGED << backendVars, authVars, adminVars, homeVars >>

\* fetchAppDetails, run by the mount effect.  .single() returns an error
\* when no row matches; every error ends in the built-in sample listing.
FetchAppDetails(c, ok) ==
  /\ detail[c].open
  /\ detail[c].loading
  /\ LET id == detail[c].id
         found == ok /\ Stored(id)
     IN  detail' = [ detail EXCEPT ![c] =
                       [ @ EXCEPT !.app = IF found THEN dbApps[id]
                                          ELSE DetailMockApp(id, MockTime),
                                  !.loading = FALSE ] ]
  /\ UNCHANGED << backendVars, authVars, adminVars, homeVars >>

\* handleDownload.  The result of the update is not looked at, so the local
\* count is raised whether or not the backend accepted the write.  Each
\* request advances the backend's clock.
HandleDownload(c, ok) ==
  /\ detail[c].open
  /\ ~detail[c].loading
  /\ detail[c].app # Null
  /\ CanWrite(1)
  /\ LET app == detail[c].app
         downloads == app.downloads + 1
     IN  /\ dbApps' = IF ok THEN UpdateApp(app.id, [ downloads |-> downloads ])
                      ELSE dbApps
         /\ detail' = [ detail EXCEPT ![c] =
                          [ @ EXCEPT !.app = [ app EXCEPT !.downloads = downloads ] ] ]
  /\ now' = now + 1
  /\ UNCHANGED << dbVersions, dbReviews, storage, dbSeq, sheet, authVars, adminVars, homeVars >>

(***************************************************************************)
(* LoginPage and the router.                                               *)
(***************************************************************************)
DemoEmail == "admin@nexus.com"

DemoPassword == "password123"

Emails == { DemoEmail, "Admin@nexus.com", "user@example.com" }

Passwords == { DemoPassword, "Password123", "hunter2" }

\* the address bar or a link: the page at the new location is constructed
Navigate(to) ==
  /\ route # to
  /\ route' = to
  /\ email' = ""
  /\ password' = ""
  /\ error' = "none"
  /\ AdminUnmount
  /\ UNCHANGED << backendVars, session, demoSession, biometricCred, inflight, submit, homeVars, detail >>

SetEmail(e) ==
  /\ route = "/login"
  /\ email' = e
  /\ UNCHANGED << backendVars, session, demoSession, biometricCred, route, password, error,
                  adminVars, homeVars, detail >>

SetPassword(p) ==
  /\ route = "/login"
  /\ password' = p
  /\ UNCHANGED << backendVars, session, demoSession, biometricCred, route, email, error,
                  adminVars, homeVars, detail >>

\* a bypass test that looks at the email only
DemoCredentials_EmailOnly == email = DemoEmail

\* email === 'admin@nexus.com' && password === 'password123'
DemoCredentials == email = DemoEmail /\ password = DemoPassword

\* handleLogin(e); authOk is the verdict of signInWithPassword.  Both inputs
\* are required fields.
HandleLogin(authOk) ==
  /\ route = "/login"
  /\ email # ""
  /\ password # ""
  /\ IF authOk
     THEN /\ session' = TRUE
          /\ route' = "/admin"
          /\ error' = "none"
          /\ demoSession' = demoSession
     ELSE /\ session' = session
          /\ IF DemoCredentials
             THEN /\ error' = "none"
                  /\ demoSession' = "true"
                  /\ route' = "/admin"
             ELSE /\ error' = "Invalid login credentials"
                  /\ demoSession' = demoSession
                  /\ route' = route
  /\ email' = IF route' = "/login" THEN email ELSE ""
  /\ password' = IF route' = "/login" THEN password ELSE ""
  /\ UNCHANGED << backendVars, biometricCred, adminVars, homeVars, detail >>

\* what navigator.credentials.get / .create can answer: a credential, null,
\* a rejection with NotAllowedError (cancelled, timed out), another rejection
PlatformOutcomes == { "credential", "null", "NotAllowedError", "error" }

\* the JSON handleBiometricEnrollment stores under nexus_biometric_cred
StoredCredential == "{credentialId,publicKey,userId}"

NoEnrollmentError ==
  "No biometric enrollment found. Please sign in with password first to enroll."

\* an assertion test that lets a null answer through
AssertionReceived_NullToo(platform) == platform \in { "credential", "null" }

\* if (!assertion) throw ...: only a non-null answer counts
AssertionReceived(platform) == platform = "credential"

\* handleBiometricLogin, from the biometric button of a browser that has
\* window.PublicKeyCredential
HandleBiometricLogin(platform) ==
  /\ route = "/login"
  /\ IF biometricCred = NoItem
     THEN /\ error' = NoEnrollmentError
          /\ UNCHANGED << demoSession, route >>
     ELSE IF AssertionReceived(platform)
          THEN /\ error' = "none"
               /\ demoSession' = "true"
               /\ route' = "/admin"
          ELSE /\ error' = CASE platform = "NotAllowedError" -> "Biometric verification cancelled."
                              [] platform = "null" -> "Biometric verification failed"
                              [] OTHER -> "The operation failed."
               /\ UNCHANGED << demoSession, route >>
  /\ email' = IF route' = "/login" THEN email ELSE ""
  /\ password' = IF route' = "/login" THEN password ELSE ""
  /\ UNCHANGED << backendVars, session, biometricCred, adminVars, homeVars, detail >>

\* handleBiometricEnrollment, from the settings tab.  getUser() gives the
\* user of the backend session; the demo marker stands in for one.
HandleBiometricEnrollment(platform) ==
  /\ adminMounted
  /\ ~ModalShown
  /\ LET user == session \/ demoSession = "true"
     IN  IF ~user
         THEN /\ lastAlert' = "Enrollment failed: User not authenticated. Please log in first."
              /\ biometricCred' = biometricCred
         ELSE IF platform = "credential"
              THEN /\ biometricCred' = StoredCredential
                   /\ lastAlert' =
                        "Biometric enrollment successful! You can now log in using your fingerprint/face ID."
              ELSE /\ biometricCred' = biometricCred
                   /\ lastAlert' = CASE platform = "NotAllowedError" -> "Enrollment cancelled or timed out."
                                      [] platform = "null" -> "Enrollment failed: Credential creation failed"
                                      [] OTHER -> "Enrollment failed: The operation failed."
  /\ UNCHANGED << backendVars, session, demoSession, route, email, password, error,
                  adminMounted, apps, loading, isModalOpen, editingApp, uploading,
                  isHistoryModalOpen, selectedAppForHistory, appVersions,
                  historyLoading, adminSearchQuery, inflight, submit, homeVars, detail >>

\* a logout that leaves local storage alone
DemoSessionAfterLogout_Kept == demoSession

\* localStorage.removeItem('nexus_demo_session')
DemoSessionAfterLogout == NoItem

\* handleLogout: signOut(), removeItem('nexus_demo_session'), navigate('/')
HandleLogout ==
  /\ adminMounted
  /\ session' = FALSE
  /\ demoSession' = DemoSessionAfterLogout
  /\ route' = "/"
  /\ AdminUnmount
  /\ UNCHANGED << backendVars, biometricCred, email, password, error, submit, homeVars, detail >>

\* the backend session ends on its own (expiry, sign-out in another tab)
SessionExpire ==
  /\ session
  /\ session' = FALSE
  /\ UNCHANGED << backendVars, demoSession, biometricCred, route, email, password, error,
                  adminVars, homeVars, detail >>

(***************************************************************************)
(* Initial states.                                                         *)
(***************************************************************************)
\* listing a1 as two handleSubmit calls leave it: created (version 1.0.0,
\* package by URL), then updated (version 2.0.0, package uploaded)
SeedA1 ==
  AppRecord("a1", FormName, FormDescription, "Tools", UploadedApkUrl, 0, 0,
            FormDeveloper, "2.0.0", 1, 3, "pending")

\* listing a2 as one handleSubmit call leaves it
SeedA2 ==
  AppRecord("a2", FormName, FormDescription, "Tools", "https://x/other.apk", 0, 0,
            FormDeveloper, "0.9.0", 5, 5, "pending")

SeedVersionsA1 ==
  { AppVersion(2, "a1", "1.0.0", "Initial release", FormApkUrl, 2),
    AppVersion(4, "a1", "2.0.0", "Bug fixes", UploadedApkUrl, 4) }

SeedVersionsA2 ==
  { AppVersion(6, "a2", "0.9.0", "Initial release", "https://x/other.apk", 6) }

\* reviews of the listings; this client has no operation that writes one
SeedReviewsA1 == { Review("r1", "a1", 50, 3) }

SeedReviewsA2 == { Review("r2", "a2", 30, 6) }

\* a store holding listing a1
InitBackendOne ==
  /\ dbApps = [ i \in AppIds |-> IF i = "a1" THEN SeedA1 ELSE NoRow ]
  /\ dbVersions = SeedVersionsA1
  /\ dbReviews = SeedReviewsA1
  /\ dbSeq = 1
  /\ now = InitNow
  /\ sheet = << >>
  \* the package of a1's version 2.0.0 was uploaded
  /\ storage = [ icons |-> 0, apks |-> 1, screenshots |-> 0 ]

\* a store holding listings a1 and a2
InitBackendTwo ==
  /\ dbApps = [ i \in AppIds |->
                  IF i = "a1" THEN SeedA1 ELSE IF i = "a2" THEN SeedA2 ELSE NoRow ]
  /\ dbVersions = SeedVersionsA1 \cup SeedVersionsA2
  /\ dbReviews = SeedReviewsA1 \cup SeedReviewsA2
  /\ dbSeq = 2
  /\ now = InitNow
  /\ sheet = << >>
  \* the package of a1's version 2.0.0 was uploaded
  /\ storage = [ icons |-> 0, apks |-> 1, screenshots |-> 0 ]

InitLogin ==
  /\ email = ""
  /\ password = ""
  /\ error = "none"

InitHome ==
  /\ homeApps = << >>
  /\ homeLoading = TRUE
  /\ searchQuery = << >>
  /\ selectedCategory = "All"

\* a signed-in admin has just opened /admin; the public pages are not in use
InitAdmin ==
  /\ session = TRUE
  /\ demoSession = NoItem
  /\ biometricCred = NoItem
  /\ route = "/admin"
  /\ InitLogin
  /\ adminMounted = FALSE
  /\ AdminConstructed
  /\ InitHome
  /\ detail = [ c \in Clients |-> DetailClosed ]

Init == InitBackendOne /\ InitAdmin

InitHistory == InitBackendTwo /\ InitAdmin

\* signing in: a browser on /login without a session
InitAuth ==
  /\ InitBackendOne
  /\ session = FALSE
  /\ demoSession = NoItem
  /\ biometricCred = NoItem
  /\ route = "/login"
  /\ InitLogin
  /\ adminMounted = FALSE
  /\ AdminConstructed
  /\ InitHome
  /\ detail = [ c \in Clients |-> DetailClosed ]

(***************************************************************************)
(* Listing management: the admin creates, edits, approves and deletes      *)
(* listings.  The console's own listing queries are answered.              *)
(***************************************************************************)
Rows == 1..(MaxApps + 2)

SubmitFailures == { "none", "upload", "write", "version" }

Next ==
  \/ AdminMount(TRUE)
  \/ \E i \in Rows, ok \in BOOLEAN, syncOk \in BOOLEAN : ApproveClick(i, ok, syncOk)
  \/ \E i \in Rows, confirmed \in BOOLEAN, ok \in BOOLEAN : HandleDelete(i, confirmed, ok)
  \/ OpenCreate
  \/ \E i \in Rows : OpenEdit(i)
  \/ CloseModal
  \/ \E form \in Forms, fail \in SubmitFailures, syncOk \in BOOLEAN :
       HandleSubmit(form, fail, TRUE, syncOk)

Spec == Init /\ [][Next]_vars

(***************************************************************************)
(* Version history: the admin opens the history of listings and rolls back.*)
(***************************************************************************)
HistoryEntries == 1..(2 * MaxApps + 2)

NextHistory ==
  \/ \E fetchOk \in BOOLEAN : AdminMount(fetchOk)
  \/ \E i \in Rows, ok \in BOOLEAN : FetchHistory(i, ok)
  \/ CloseHistory
  \/ \E j \in HistoryEntries, confirmed \in BOOLEAN, ok \in BOOLEAN, fetchOk \in BOOLEAN :
       HandleRollback(j, confirmed, ok, fetchOk)
  \/ \E i \in Rows, confirmed \in BOOLEAN, ok \in BOOLEAN : HandleDelete(i, confirmed, ok)

SpecHistory == InitHistory /\ [][NextHistory]_vars

(***************************************************************************)
(* Moderation and the public directory: the admin approves and deletes     *)
(* listings while visitors load the directory.                             *)
(***************************************************************************)
NextDirectory ==
  \/ \E fetchOk \in BOOLEAN : AdminMount(fetchOk)
  \/ \E i \in Rows, ok \in BOOLEAN, syncOk \in BOOLEAN : ApproveClick(i, ok, syncOk)
  \/ \E i \in Rows, confirmed \in BOOLEAN, ok \in BOOLEAN : HandleDelete(i, confirmed, ok)
  \/ HomeOpen
  \/ \E ok \in BOOLEAN : HomeFetchApps(ok)

SpecDirectory == InitHistory /\ [][NextDirectory]_vars

(***************************************************************************)
(* The admin keeps using the console while status changes and deletes are  *)
(* awaiting their responses, which arrive in any order.                    *)
(***************************************************************************)
NextConsole ==
  \/ AdminMount(TRUE)
  \/ \E i \in Rows : ApproveClickSend(i)
  \/ \E i \in Rows, confirmed \in BOOLEAN : HandleDeleteSend(i, confirmed)
  \/ \E c \in inflight, ok \in BOOLEAN : BackendAnswers(c, ok)
  \/ \E c \in inflight, syncOk \in BOOLEAN : HandleStatusChangeResume(c, syncOk)
  \/ \E c \in inflight : HandleDeleteResume(c)

SpecConsole == InitHistory /\ [][NextConsole]_vars

\* the same console over a store with one listing
SpecConsoleOne == Init /\ [][NextConsole]_vars

(***************************************************************************)
(* The admin edits a listing while a status change of it is awaiting its   *)
(* response.                                                               *)
(***************************************************************************)
NextEditing ==
  \/ AdminMount(TRUE)
  \/ \E i \in Rows : ApproveClickSend(i)
  \/ \E c \in inflight, ok \in BOOLEAN : BackendAnswers(c, ok)
  \/ \E c \in inflight, syncOk \in BOOLEAN : HandleStatusChangeResume(c, syncOk)
  \/ \E i \in Rows : OpenEdit(i)
  \/ CloseModal
  \/ \E form \in Forms, syncOk \in BOOLEAN : HandleSubmit(form, "none", TRUE, syncOk)

SpecEditing == Init /\ [][NextEditing]_vars

(***************************************************************************)
(* The admin attaches screenshots to new and to existing listings.         *)
(***************************************************************************)
\* the numbers of files the admin picks in the screenshot input
ScreenshotPicks == 0..MaxScreenshots

ScreenshotForms ==
  [ name : { FormName }, developer : { FormDeveloper },
    description : { FormDescription }, category : { "Tools" },
    version : FormVersions, apk_url : { FormApkUrl },
    release_notes : { "" }, icon_file : { FALSE }, apk_file : { FALSE },
    screenshot_files : ScreenshotPicks ]

NextScreenshots ==
  \/ AdminMount(TRUE)
  \/ OpenCreate
  \/ \E i \in Rows : OpenEdit(i)
  \/ CloseModal
  \/ \E form \in ScreenshotForms, fail \in { "none", "upload" } :
       HandleSubmit(form, fail, TRUE, TRUE)

SpecScreenshots == Init /\ [][NextScreenshots]_vars

(***************************************************************************)
(* One submission at a time, with its uploads and backend calls answered   *)
(* one by one.                                                             *)
(***************************************************************************)
\* a package alone; an icon and a package; an icon, a package and two
\* screenshots
UploadForms ==
  { form \in [ name : { FormName }, developer : { FormDeveloper },
               description : { FormDescription }, category : { "Tools" },
               version : FormVersions, apk_url : { FormApkUrl },
               release_notes : { "" }, icon_file : BOOLEAN, apk_file : { TRUE },
               screenshot_files : { 0, 2 } ] :
      form.screenshot_files > 0 => form.icon_file }

NextSubmit ==
  \/ AdminMount(TRUE)
  \/ OpenCreate
  \/ \E i \in Rows : OpenEdit(i)
  \/ \E i \in Rows : ApproveClick(i, TRUE, TRUE)
  \/ \E form \in UploadForms : SubmitStart(form)
  \/ \E ok \in BOOLEAN : UploadAnswers(ok)
  \/ \E k \in 1..MaxScreenshots, ok \in BOOLEAN : ShotAnswers(k, ok)
  \/ \E ok \in BOOLEAN : WriteAnswers(ok)
  \/ \E ok \in BOOLEAN : VersionAnswers(ok)
  \/ FetchAnswers(TRUE)
  \/ \E syncOk \in BOOLEAN : SyncAnswers(syncOk)

SpecSubmit == Init /\ [][NextSubmit]_vars

(***************************************************************************)
(* The Listing Detail pages of several visitors.                           *)
(***************************************************************************)
NextPublic ==
  \/ \E c \in Clients, id \in AppIds \cup { UnknownId } : DetailOpen(c, id)
  \/ \E c \in Clients, ok \in BOOLEAN : FetchAppDetails(c, ok)
  \/ \E c \in Clients, ok \in BOOLEAN : HandleDownload(c, ok)

SpecPublic == Init /\ [][NextPublic]_vars

(***************************************************************************)
(* Signing in and out.                                                     *)
(***************************************************************************)
NextAuth ==
  \/ \E to \in { "/", "/login", "/admin" } : Navigate(to)
  \/ \E e \in Emails : SetEmail(e)
  \/ \E p \in Passwords : SetPassword(p)
  \/ \E authOk \in BOOLEAN : HandleLogin(authOk)
  \/ \E platform \in PlatformOutcomes : HandleBiometricLogin(platform)
  \/ \E platform \in PlatformOutcomes : HandleBiometricEnrollment(platform)
  \/ \E fetchOk \in BOOLEAN : AdminMount(fetchOk)
  \/ HandleLogout
  \/ SessionExpire

SpecAuth == InitAuth /\ [][NextAuth]_vars

(***************************************************************************)
(* Searching and filtering: listings have been loaded, the visitor and the *)
(* admin type into the search boxes and pick categories.                   *)
(***************************************************************************)
FilterLetters == { "a", "A", "b" }

\* every text of at most n letters
Texts(n) == UNION { [ 1..k -> FilterLetters ] : k \in 0..n }

FilterRow(id, name, description, developer, category, t) ==
  AppRecord(id, name, description, category, FormApkUrl, 0, 0, developer, "1.0.0",
            t, t, "published")

FilterPool ==
  { FilterRow("a1", << "a", "b" >>, << "b", "b" >>, << "A" >>, "Tools", 1),
    FilterRow("a2", << "B" >>, << "A", "a" >>, << "b", "a" >>, "Games", 2),
    FilterRow("a3", << "b", "A", "b" >>, << "a" >>, << "B", "B" >>, "Tools", 3),
    FilterRow("a4", << "A" >>, << "a", "B", "a" >>, << "a", "a" >>, "Social", 4) }

\* the lists a fetch can have produced: one or two listings, newest first
FilterLists ==
  { << r >> : r \in FilterPool }
    \cup { << p[1], p[2] >> :
             p \in { x \in FilterPool \X FilterPool : x[2].created_at < x[1].created_at } }

\* the console's fetch has no status filter: the same lists with the first
\* listing still pending and the second, if any, rejected
Unreviewed(list) ==
  [ i \in 1..Len(list) |->
      [ list[i] EXCEPT !.status = IF i = 1 THEN "pending" ELSE "rejected" ] ]

AdminFilterLists == FilterLists \cup { Unreviewed(l) : l \in FilterLists }

InitFilter ==
  /\ InitBackendOne
  /\ session = TRUE
  /\ demoSession = NoItem
  /\ biometricCred = NoItem
  /\ route = "/admin"
  /\ InitLogin
  \* either the admin console has loaded its listings, or a visitor's
  \* directory has
  /\ \/ /\ adminMounted = TRUE
        /\ loading = FALSE
        /\ apps \in AdminFilterLists \cup { AdminMockApps(MockTime) }
        /\ homeApps = << >>
        /\ homeLoading = TRUE
     \/ /\ adminMounted = FALSE
        /\ loading = TRUE
        /\ apps = << >>
        /\ homeApps \in FilterLists \cup { HomeMockApps(MockTime) }
        /\ homeLoading = FALSE
  /\ isModalOpen = FALSE
  /\ editingApp = Null
  /\ uploading = FALSE
  /\ isHistoryModalOpen = FALSE
  /\ selectedAppForHistory = Null
  /\ appVersions = << >>
  /\ historyLoading = FALSE
  /\ adminSearchQuery = << >>
  /\ lastAlert = "none"
  /\ inflight = {}
  /\ submit = NoSubmit
  /\ searchQuery = << >>
  /\ selectedCategory = "All"
  /\ detail = [ c \in Clients |-> DetailClosed ]

NextFilter ==
  \/ \E s \in Texts(MaxLen) : SetSearchQuery(s)
  \/ \E i \in 1..Len(categories) : SetSelectedCategory(categories[i])
  \/ \E s \in Texts(MaxLen) : SetAdminSearchQuery(s)

SpecFilter == InitFilter /\ [][NextFilter]_vars

(***************************************************************************)
(* Properties                                                              *)
(***************************************************************************)

\* the Version Records of listing id, and the listing ids of a list
VersionsOf(id) == { v \in dbVersions : v.app_id = id }

IdsOf(list) == { list[i].id : i \in 1..Len(list) }

\* C1: every create submission that handleSubmit carries through (the form
\* closes, no error alert) has stored a new listing with status pending,
\* rating 0 and download count 0, and has added exactly one Version Record of
\* that listing carrying the submitted version and package URL, with release
\* notes "Initial release" when the form's notes were empty.
C1_CreateStoresListingAndVersion ==
  [][ \A form \in Forms, fail \in SubmitFailures, syncOk \in BOOLEAN :
        ( /\ editingApp = Null
          /\ HandleSubmit(form, fail, TRUE, syncOk)
          /\ isModalOpen' = FALSE )
        => \E id \in AppIds :
             /\ ~Stored(id)
             /\ dbApps'[id] # NoRow
             /\ dbApps'[id].status = "pending"
             /\ dbApps'[id].rating = 0
             /\ dbApps'[id].downloads = 0
             /\ \E v \in dbVersions' \ dbVersions :
                  /\ dbVersions' = dbVersions \cup { v }
                  /\ v.app_id = id
                  /\ v.version = form.version
                  /\ v.version = dbApps'[id].version
                  /\ v.apk_url = dbApps'[id].apk_url
                  /\ form.release_notes = "" => v.release_notes = "Initial release"
    ]_vars

\* C2: a rollback to Version Record V that succeeds leaves the parent listing
\* of V (the listing V.app_id names) with V's version and package URL and a
\* refreshed updated timestamp, and leaves the set of Version Records as it was.
C2_RollbackSetsParentListing ==
  [][ \A j \in HistoryEntries, fetchOk \in BOOLEAN :
        HandleRollback(j, TRUE, TRUE, fetchOk)
        => LET V == appVersions[j]
           IN  /\ Stored(V.app_id)
               /\ dbApps'[V.app_id] # NoRow
               /\ dbApps'[V.app_id].version = V.version
               /\ dbApps'[V.app_id].apk_url = V.apk_url
               /\ dbApps'[V.app_id].updated_at = now
               /\ dbVersions' = dbVersions
    ]_vars

\* C3: in the version-history view of a listing, an entry is marked current
\* exactly when it is the most recently created Version Record of that listing,
\* and it is offered a rollback exactly when it is a strictly older Version
\* Record of that listing; the entry marked current is never offered one.
C3_CurrentIsLatestOfListing ==
  HistoryListShown
  => LET recs == VersionsOf(selectedAppForHistory.id)
         Latest(v) == v \in recs /\ \A w \in recs : w.created_at <= v.created_at
     IN  \A j \in 1..Len(appVersions) :
           /\ MarkedCurrent(j) <=> Latest(appVersions[j])
           /\ RollbackOffered(j) <=> (appVersions[j] \in recs /\ ~Latest(appVersions[j]))
           /\ ~(MarkedCurrent(j) /\ RollbackOffered(j))

\* C4: every handleDownload on a loaded listing that no other client has
\* written since (the page's copy is the stored row) raises that listing's
\* stored download count by exactly 1, and afterwards the page's local copy
\* shows the count the store holds.
C4_DownloadRaisesStoredCountByOne ==
  [][ \A c \in Clients, ok \in BOOLEAN :
        ( /\ HandleDownload(c, ok)
          /\ Stored(detail[c].app.id)
          /\ detail[c].app = dbApps[detail[c].app.id] )
        => LET id == detail[c].app.id
           IN  /\ dbApps'[id] # NoRow
               /\ dbApps'[id].downloads = dbApps[id].downloads + 1
               /\ detail'[c].app.downloads = dbApps'[id].downloads
    ]_vars

\* C5: no operation lowers the stored download count of a listing that stays
\* stored.
C5_DownloadCountNeverDecreases ==
  [][ \A id \in AppIds :
        (Stored(id) /\ dbApps'[id] # NoRow)
        => dbApps'[id].downloads >= dbApps[id].downloads
    ]_vars

\* listings whose approval went through: handleStatusChange(id, 'published')
\* reported them to the notifier after the backend accepted the update
ApprovedIds ==
  { sheet[k].id :
      k \in { n \in 1..Len(sheet) : /\ sheet[n].action = "status_update"
                                    /\ sheet[n].status = "published" } } \cap AppIds

PublishedIds == { id \in AppIds : Stored(id) /\ dbApps[id].status = "published" }

\* C6 as stated: a directory load answered by the backend holds only listings
\* stored as published, holds no listing stored as pending, and holds every
\* listing whose approval succeeded earlier.
C6_ApprovedListingInEveryLaterLoad ==
  [][ HomeFetchApps(TRUE)
      => /\ \A i \in 1..Len(homeApps') :
              /\ Stored(homeApps'[i].id)
              /\ dbApps[homeApps'[i].id].status = "published"
         /\ \A id \in AppIds :
              (Stored(id) /\ dbApps[id].status = "pending") => id \notin IdsOf(homeApps')
         /\ ApprovedIds \subseteq IdsOf(homeApps')
    ]_vars

\* C6, amended: a directory load answered by the backend holds exactly the
\* listings stored as published at that moment, as they are stored: a pending
\* listing is absent, and a listing whose approval succeeded earlier is
\* included for as long as it stays stored as published.
C6_LoadIsStoredPublished ==
  [][ HomeFetchApps(TRUE)
      => /\ IdsOf(homeApps') = PublishedIds
         /\ \A i \in 1..Len(homeApps') : homeApps'[i] = dbApps[homeApps'[i].id]
         /\ \A id \in AppIds :
              (Stored(id) /\ dbApps[id].status = "pending") => id \notin IdsOf(homeApps')
         /\ (ApprovedIds \cap PublishedIds) \subseteq IdsOf(homeApps')
    ]_vars

\* a load that shows an approved listing while another listing is still pending
C6_Witness ==
  /\ ~homeLoading
  /\ \E id \in ApprovedIds : id \in IdsOf(homeApps) /\ id \in PublishedIds
  /\ \E id \in AppIds :
       Stored(id) /\ dbApps[id].status = "pending" /\ id \notin IdsOf(homeApps)

\* C7: with an empty search text, choosing a category other than 'All' shows
\* exactly the loaded listings of that category, in the loaded order, and
\* choosing 'All' shows every loaded listing.
InSelectedCategory(app) == app.category = selectedCategory

C7_CategoryFilterExact ==
  (~homeLoading /\ searchQuery = << >>)
  => IF selectedCategory = "All"
     THEN filteredApps = homeApps
     ELSE filteredApps = SelectSeq(homeApps, InSelectedCategory)

\* a category that keeps some of the loaded listings and drops others
C7_Witness ==
  /\ ~homeLoading
  /\ searchQuery = << >>
  /\ selectedCategory # "All"
  /\ Len(filteredApps) > 0
  /\ Len(filteredApps) < Len(homeApps)

\* two characters are the same letter when case is ignored
SameLetterIgnoringCase(a, b) ==
  \/ a = b
  \/ \E i \in 1..Len(UpperChars) : { a, b } = { UpperChars[i], LowerChars[i] }

\* q occurs in t as a contiguous run of characters, case ignored
OccursIgnoringCase(q, t) ==
  \E off \in 0..(Len(t) - Len(q)) :
    \A k \in 1..Len(q) : SameLetterIgnoringCase(q[k], t[off + k])

KeptInDirectory(app) ==
  /\ \/ OccursIgnoringCase(searchQuery, app.name)
     \/ OccursIgnoringCase(searchQuery, app.description)
  /\ selectedCategory = "All" \/ app.category = selectedCategory

KeptInAdmin(app) ==
  \/ OccursIgnoringCase(adminSearchQuery, app.name)
  \/ OccursIgnoringCase(adminSearchQuery, app.developer)

\* C8: the directory keeps a loaded listing exactly when the search text
\* occurs, case ignored, in its name or its description (and its category
\* passes the category filter); the admin console keeps a listing exactly
\* when the search text occurs, case ignored, in its name or its developer.
C8_SearchIsCaseInsensitiveSubstring ==
  /\ ~homeLoading => filteredApps = SelectSeq(homeApps, KeptInDirectory)
  /\ (adminMounted /\ ~loading) => adminFilteredApps = SelectSeq(apps, KeptInAdmin)

\* the admin's search text keeps a listing only because case is ignored, and
\* drops another listing
C8_Witness ==
  /\ adminMounted
  /\ ~loading
  /\ Len(adminSearchQuery) > 1
  /\ \E i \in 1..Len(apps) :
       /\ MatchesAdmin(apps[i])
       /\ ~Includes(apps[i].name, adminSearchQuery)
       /\ ~Includes(apps[i].developer, adminSearchQuery)
  /\ \E i \in 1..Len(apps) : ~MatchesAdmin(apps[i])

\* C9: when handleLogin's backend sign-in fails, the demo-session flag is set
\* and the admin console is navigated to exactly when the entered email is
\* 'admin@nexus.com' and the password is 'password123'; for any other pair the
\* flag is left as it was, an error is shown and the login page stays.  When
\* the backend sign-in succeeds, the console is navigated to and the flag is
\* not touched.
C9_DemoBypassOnlyForDemoPair ==
  [][ /\ HandleLogin(FALSE)
         => IF email = "admin@nexus.com" /\ password = "password123"
            THEN demoSession' = "true" /\ route' = "/admin"
            ELSE /\ demoSession' = demoSession
                 /\ error' # "none"
                 /\ route' = "/login"
      /\ (HandleLogin(TRUE) /\ ~HandleLogin(FALSE))
         => /\ route' = "/admin"
            /\ demoSession' = demoSession
            /\ session' = TRUE
    ]_vars

\* the console reached through the bypass: flag set, no backend session
C9_Witness ==
  /\ route = "/admin"
  /\ demoSession = "true"
  /\ session = FALSE
  /\ error = "none"

\* C10: when the admin console mounts it sends the browser to the login page
\* exactly when there is no backend session and the demo-session marker is
\* not 'true'; the check is made on mount only, so once the console is
\* mounted nothing but the admin's own navigation or logout leaves it.
C10_RedirectOnMountOnly ==
  [][ /\ (\E fetchOk \in BOOLEAN : AdminMount(fetchOk))
         => /\ route' = "/login" <=> (session = FALSE /\ demoSession # "true")
            /\ route' # "/login" => (route' = "/admin" /\ adminMounted')
      /\ (adminMounted /\ route' # route)
         => \/ \E to \in { "/", "/login", "/admin" } : Navigate(to)
            \/ HandleLogout
    ]_vars

\* a mounted console that was admitted on the demo marker alone
C10_Witness ==
  /\ adminMounted
  /\ route = "/admin"
  /\ session = FALSE
  /\ demoSession = "true"

\* C11: biometric sign-in with no credential in local storage shows the
\* enroll-first error, sets no demo-session flag and does not navigate; with
\* a credential stored, a non-null assertion sets the flag and navigates to
\* the admin console, and a null assertion or a platform error sets no flag
\* and does not navigate.
C11_BiometricLoginOutcomes ==
  [][ \A platform \in PlatformOutcomes :
        HandleBiometricLogin(platform)
        => IF biometricCred = NoItem
           THEN /\ error' = "No biometric enrollment found. Please sign in with password first to enroll."
                /\ demoSession' = demoSession
                /\ route' = "/login"
           ELSE IF platform = "credential"
                THEN demoSession' = "true" /\ route' = "/admin"
                ELSE /\ demoSession' = demoSession
                     /\ route' = "/login"
    ]_vars

\* a stored credential, a null assertion: the login page stays, no flag
C11_Witness ==
  /\ route = "/login"
  /\ biometricCred # NoItem
  /\ error = "Biometric verification failed"
  /\ demoSession = NoItem
  /\ session = FALSE

\* C12: a status change whose backend update succeeded is applied in the
\* backend and in the console's listing set also when the notifier call that
\* follows fails: nothing is rolled back and no failure is reported.
C12_NotifierFailureKeepsStatusChange ==
  [][ \A i \in Rows :
        ApproveClick(i, TRUE, FALSE)
        => LET id == apps[i].id
           IN  /\ Stored(id) => (dbApps'[id] # NoRow /\ dbApps'[id].status = "published")
               /\ Len(apps') = Len(apps)
               /\ \A k \in 1..Len(apps') :
                    apps'[k].id = id => apps'[k].status = "published"
               /\ lastAlert' = lastAlert
               /\ sheet' = sheet
    ]_vars

\* a listing published in the backend and in the console's list although the
\* notifier never received its status change
C12_Witness ==
  /\ adminMounted
  /\ \E k \in 1..Len(apps) :
       /\ apps[k].status = "published"
       /\ Stored(apps[k].id)
       /\ dbApps[apps[k].id].status = "published"
       /\ apps[k].id \notin ApprovedIds

\* C13: when the insert of the Version Record fails after the listing write
\* succeeded, handleSubmit stops with the error alert: the listings are not
\* fetched again, the form stays open, the notifier gets nothing, and the
\* listing write stays in place.
C13_VersionInsertFailureAborts ==
  [][ \A form \in Forms, syncOk \in BOOLEAN :
        HandleSubmit(form, "version", TRUE, syncOk)
        => /\ lastAlert' = SaveErrorAlert
           /\ isModalOpen' = TRUE
           /\ apps' = apps
           /\ sheet' = sheet
           /\ dbVersions' = dbVersions
           /\ dbApps' # dbApps
    ]_vars

\* C14: every handleSubmit that completes (the form closes), create or
\* update, has added exactly one Version Record, of the listing it wrote, and
\* the record's version and package URL are those written to the listing.
C14_OneVersionRecordPerSubmit ==
  [][ \A form \in Forms, fail \in SubmitFailures, syncOk \in BOOLEAN :
        (HandleSubmit(form, fail, TRUE, syncOk) /\ isModalOpen' = FALSE)
        => \E v \in dbVersions' \ dbVersions :
             /\ dbVersions' = dbVersions \cup { v }
             /\ IF editingApp # Null
                THEN v.app_id = editingApp.id
                ELSE ~Stored(v.app_id) /\ v.app_id \in AppIds
             /\ v.version = form.version
             /\ dbApps'[v.app_id] # NoRow
                  => /\ v.version = dbApps'[v.app_id].version
                     /\ v.apk_url = dbApps'[v.app_id].apk_url
    ]_vars

\* the Reviews of listing id
ReviewsOf(id) == { r \in dbReviews : r.app_id = id }

C16_DeclinedConfirmationChangesNothing ==
  [][ ( \/ \E i \in Rows, ok \in BOOLEAN : HandleDelete(i, FALSE, ok)
        \/ \E j \in HistoryEntries, ok \in BOOLEAN, fetchOk \in BOOLEAN :
             HandleRollback(j, FALSE, ok, fetchOk) )
      => UNCHANGED << backendVars, adminVars >>
    ]_vars

\* a history view that offers a rollback the admin can decline
C16_Witness ==
  /\ \E j \in HistoryEntries : RollbackOffered(j)
  /\ Stored(selectedAppForHistory.id)
  /\ lastAlert = "none"

\* C17: a stored listing that the console shows as pending can be moved by
\* one admin operation to published, and can be moved by one to rejected.
C17_PendingCanBePublishedOrRejected ==
  \A i \in Rows :
    ( /\ RowShown(i)
      /\ apps[i].status = "pending"
      /\ Stored(apps[i].id)
      /\ dbApps[apps[i].id].status = "pending"
      /\ CanWrite(1) )
    => /\ ENABLED (Next /\ dbApps'[apps[i].id] # NoRow
                        /\ dbApps'[apps[i].id].status = "published")
       /\ ENABLED (Next /\ dbApps'[apps[i].id] # NoRow
                        /\ dbApps'[apps[i].id].status = "rejected")

\* C18: when the Listing Detail page's fetch finds no listing for its
\* identifier, or the fetch errors, the page ends on its "App not found"
\* screen (not loading, no listing held) and displays no listing.
C18_MissingListingEndsNotFound ==
  [][ \A c \in Clients, ok \in BOOLEAN :
        ( FetchAppDetails(c, ok) /\ ~(ok /\ Stored(detail[c].id)) )
        => /\ ~detail'[c].loading
           /\ detail'[c].app = Null ]_vars

\* C19: no failed backend call on a write path is silent: while no alert has
\* been shown yet, a status change, a delete, a create / update submit or a
\* rollback whose backend call fails never ends without an alert.
C19_NoSilentWriteFailure ==
  lastAlert = "none"
  => /\ \A i \in Rows, syncOk \in BOOLEAN :
          ~ENABLED (ApproveClick(i, FALSE, syncOk) /\ lastAlert' = "none")
     /\ \A i \in Rows :
          ~ENABLED (HandleDelete(i, TRUE, FALSE) /\ lastAlert' = "none")
     /\ \A form \in Forms, fail \in { "write", "version" }, syncOk \in BOOLEAN :
          ~ENABLED (HandleSubmit(form, fail, TRUE, syncOk) /\ lastAlert' = "none")
     /\ \A j \in HistoryEntries, fetchOk \in BOOLEAN :
          ~ENABLED (HandleRollback(j, TRUE, FALSE, fetchOk) /\ lastAlert' = "none")

\* C20 as stated: the Admin Console keeps a loaded listing, whatever its
\* status, exactly when the search text occurs, case ignored, in its name or
\* its description (the directory's search predicate; the console has no
\* category selection, which is the directory's 'All') or in its developer
\* name.
KeptAsDirectoryOrDeveloper(app) ==
  \/ OccursIgnoringCase(adminSearchQuery, app.name)
  \/ OccursIgnoringCase(adminSearchQuery, app.description)
  \/ OccursIgnoringCase(adminSearchQuery, app.developer)

C20_AdminFilterIsDirectoryPlusDeveloper ==
  (adminMounted /\ ~loading)
  => adminFilteredApps = SelectSeq(apps, KeptAsDirectoryOrDeveloper)

\* C20, amended: the Admin Console's filter looks at the name and the
\* developer name only.  Every loaded listing, whatever its status, category
\* and description, is shown exactly when the search text occurs, case
\* ignored, in its name or in its developer name, and the shown listings keep
\* the loaded order.
C20_AdminFilterIsNameOrDeveloper ==
  (adminMounted /\ ~loading)
  => /\ \A i \in 1..Len(apps) :
          (\E k \in 1..Len(adminFilteredApps) : adminFilteredApps[k] = apps[i])
          <=> ( \/ OccursIgnoringCase(adminSearchQuery, apps[i].name)
                \/ OccursIgnoringCase(adminSearchQuery, apps[i].developer) )
     /\ \A k \in 1..Len(adminFilteredApps) :
          \E i \in 1..Len(apps) : adminFilteredApps[k] = apps[i]
     /\ \A k, m \in 1..Len(adminFilteredApps) :
          k < m => adminFilteredApps[m].created_at <= adminFilteredApps[k].created_at

\* a search that keeps a listing not yet published and drops a listing whose
\* description, but neither name nor developer, contains the search text
C20_Witness ==
  /\ adminMounted
  /\ ~loading
  /\ adminSearchQuery # << >>
  /\ \E k \in 1..Len(adminFilteredApps) : adminFilteredApps[k].status # "published"
  /\ \E i \in 1..Len(apps) :
       /\ OccursIgnoringCase(adminSearchQuery, apps[i].description)
       /\ \A k \in 1..Len(adminFilteredApps) : adminFilteredApps[k] # apps[i]

\* C21: an update of a stored listing through handleSubmit leaves the
\* listing's stored status as it was immediately before the update, whatever
\* the order of opening the edit form, status changes and the submit.
C21_UpdateKeepsStoredStatus ==
  [][ \A form \in Forms, fail \in SubmitFailures, syncOk \in BOOLEAN :
        ( /\ editingApp # Null
          /\ Stored(editingApp.id)
          /\ HandleSubmit(form, fail, TRUE, syncOk) )
        => /\ dbApps'[editingApp.id] # NoRow
           /\ dbApps'[editingApp.id].status = dbApps[editingApp.id].status ]_vars

\* the limit the form states: "Screenshots (Up to 5)"
ScreenshotLimit == 5

\* C22: every submission uploads at most five screenshots, and after it no
\* stored listing carries more than five.
C22_AtMostFiveScreenshots ==
  [][ \A form \in ScreenshotForms :
        HandleSubmit(form, "none", TRUE, TRUE)
        => /\ storage'.screenshots - storage.screenshots <= ScreenshotLimit
           /\ \A id \in AppIds :
                dbApps'[id] # NoRow => Len(dbApps'[id].screenshots) <= ScreenshotLimit
    ]_vars

\* the steps of the submission in progress
Happened(e) == \E i \in 1..Len(submit.log) : submit.log[i] = e

HappenedBefore(e, f) ==
  \E i, j \in 1..Len(submit.log) : i < j /\ submit.log[i] = e /\ submit.log[j] = f

\* an upload's request has been sent and its answer is still awaited
UploadInFlight ==
  \/ submit.pc \in { "icon", "apk" }
  \/ submit.pc \in { "shots", "aborted" }
       /\ \E k \in 1..Len(submit.shots) : submit.shots[k] = "sent"

\* C23 as stated: within one handleSubmit the uploads of the icon, the package
\* and the screenshots are dispatched together (while one of them is awaiting
\* its answer, the upload of every attached file has been sent), and the
\* listing write is not sent while an upload is awaiting its answer.
C23_UploadsDispatchedTogether ==
  submit.pc # "idle"
  => /\ UploadInFlight
          => /\ submit.form.icon_file => Happened(<< "icon", "sent" >>)
             /\ submit.form.apk_file => Happened(<< "apk", "sent" >>)
             /\ submit.form.screenshot_files > 0 => Happened(<< "shots", "sent" >>)
     /\ Happened(<< "write", "sent" >>) => ~UploadInFlight

\* C23, amended: within one handleSubmit the icon upload is answered before
\* the package upload is sent, and both are answered before the screenshot
\* uploads are sent; the screenshot uploads of the submission are sent
\* together, before any of them is answered; and the listing write is sent
\* only when the upload of every attached file has been answered with
\* success, never while an upload is awaiting its answer.
C23_UploadsInTurnThenWrite ==
  submit.pc # "idle"
  => LET form == submit.form
     IN  /\ (form.icon_file /\ Happened(<< "apk", "sent" >>))
              => HappenedBefore(<< "icon", "done" >>, << "apk", "sent" >>)
         /\ Happened(<< "shots", "sent" >>)
              => /\ form.icon_file
                      => HappenedBefore(<< "icon", "done" >>, << "shots", "sent" >>)
                 /\ form.apk_file
                      => HappenedBefore(<< "apk", "done" >>, << "shots", "sent" >>)
                 /\ Len(submit.shots) = form.screenshot_files
                 /\ ~HappenedBefore(<< "shots", "done" >>, << "shots", "sent" >>)
                 /\ ~HappenedBefore(<< "shots", "failed" >>, << "shots", "sent" >>)
         /\ Happened(<< "write", "sent" >>)
              => /\ ~UploadInFlight
                 /\ form.icon_file => Happened(<< "icon", "done" >>)
                 /\ form.apk_file => Happened(<< "apk", "done" >>)
                 /\ Len(submit.shots) = form.screenshot_files
                 /\ \A k \in 1..Len(submit.shots) : submit.shots[k] = "done"

\* two screenshot uploads are awaiting their answers at the same time, after
\* the icon and the package were uploaded one after the other
C23_Witness ==
  /\ submit.pc = "shots"
  /\ Len(submit.shots) = 2
  /\ \A k \in 1..Len(submit.shots) : submit.shots[k] = "sent"
  /\ HappenedBefore(<< "icon", "done" >>, << "apk", "sent" >>)

\* C24: when an upload or the listing write of a handleSubmit fails, no later
\* step of it runs: the listings and the Version Records in the backend stay
\* as they were, the local list is not re-fetched, the form stays open with
\* the edited record still selected, nothing is posted to the notifier, the
\* objects already uploaded stay in the bucket, and the call is over (only
\* screenshot uploads already on their way can still arrive, and they change
\* nothing but the bucket).
C24_FailureStopsTheSubmission ==
  [][ /\ ( \/ UploadAnswers(FALSE)
           \/ WriteAnswers(FALSE)
           \/ \E k \in 1..MaxScreenshots : submit.pc = "shots" /\ ShotAnswers(k, FALSE) )
         => /\ dbApps' = dbApps
            /\ dbVersions' = dbVersions
            /\ apps' = apps
            /\ isModalOpen' = TRUE
            /\ editingApp' = submit.editing
            /\ sheet' = sheet
            /\ storage' = storage
            /\ submit'.pc \in { "idle", "aborted" }
      /\ submit.pc = "aborted"
         => /\ submit'.pc \in { "idle", "aborted" }
            /\ UNCHANGED << dbApps, dbVersions, apps, isModalOpen, editingApp, sheet >>
            /\ storage'.icons = storage.icons
            /\ storage'.apks = storage.apks
            /\ storage'.screenshots >= storage.screenshots ]_vars

\* a submission has failed after its icon was uploaded: the form is still
\* open, the alert is up, the icon is in the bucket and no Version Record has
\* been added
C24_Witness ==
  /\ submit = NoSubmit
  /\ lastAlert = SaveErrorAlert
  /\ isModalOpen
  /\ ~uploading
  /\ storage.icons > 0
  /\ dbVersions = SeedVersionsA1
  /\ sheet = << >>

\* the steps a handleSubmit takes from its listing write on, in order
StepsFromWrite ==
  << << "write", "sent" >>, << "write", "done" >>, << "version", "sent" >>,
     << "fetch", "sent" >>, << "fetch", "done" >>, << "modal", "closed" >>,
     << "notifier", "sent" >> >>

\* C25: when a handleSubmit comes to its end, its steps were taken in the order
\* listing write, Version Record insert, re-fetch of the listings, closing of
\* the modal, notifier; the notifier was called exactly once, and what it
\* posts carries the tag 'create' when no listing was being edited and
\* 'update' when one was.  A status change posts with the tag 'status_update'.
C25_SubmitOrderAndNotifierTag ==
  [][ /\ \A syncOk \in BOOLEAN :
           SyncAnswers(syncOk)
           => /\ \A n \in 1..(Len(StepsFromWrite) - 1) :
                   HappenedBefore(StepsFromWrite[n], StepsFromWrite[n + 1])
              /\ \A n \in 1..Len(StepsFromWrite) :
                   Cardinality({ i \in 1..Len(submit.log) :
                                   submit.log[i] = StepsFromWrite[n] }) = 1
              /\ \/ HappenedBefore(<< "version", "sent" >>, << "version", "done" >>)
                    /\ HappenedBefore(<< "version", "done" >>, << "fetch", "sent" >>)
                 \/ HappenedBefore(<< "version", "sent" >>, << "version", "failed" >>)
                    /\ HappenedBefore(<< "version", "failed" >>, << "fetch", "sent" >>)
              /\ IF syncOk
                 THEN /\ Len(sheet') = Len(sheet) + 1
                      /\ SubSeq(sheet', 1, Len(sheet)) = sheet
                      /\ sheet'[Len(sheet')].action =
                           IF submit.editing = Null THEN "create" ELSE "update"
                 ELSE sheet' = sheet
      /\ \A i \in Rows :
           (now' # now /\ ~isModalOpen /\ ApproveClick(i, TRUE, TRUE))
           => /\ Len(sheet') = Len(sheet) + 1
              /\ SubSeq(sheet', 1, Len(sheet)) = sheet
              /\ sheet'[Len(sheet')].action = "status_update" ]_vars

\* an update and a status change have both been posted, and no submission is
\* in progress
C25_Witness ==
  /\ submit = NoSubmit
  /\ ~isModalOpen
  /\ \E i \in 1..Len(sheet) : sheet[i].action = "update"
  /\ \E i \in 1..Len(sheet) : sheet[i].action = "status_update"

\* C26: every rollback that writes to a listing X writes the version label
\* and the package reference of a Version Record that belongs to X.
C26_RollbackUsesOwnRecord ==
  [][ \A j \in HistoryEntries, fetchOk \in BOOLEAN :
        HandleRollback(j, TRUE, TRUE, fetchOk)
        => LET X == selectedAppForHistory.id
           IN  /\ appVersions[j].app_id = X
               /\ Stored(X) =>
                    \E v \in VersionsOf(X) :
                      /\ dbApps'[X].version = v.version
                      /\ dbApps'[X].apk_url = v.apk_url ]_vars

\* C27: once every handleStatusChange and handleDelete call has finished, the
\* console's list agrees with the backend: every listing in it is stored and
\* shows its stored status (so no deleted listing is left in it).
C27_LocalListAgreesWhenCallsFinished ==
  (adminMounted /\ ~loading /\ inflight = {})
  => \A k \in 1..Len(apps) :
       /\ Stored(apps[k].id)
       /\ apps[k].status = dbApps[apps[k].id].status

\* C30: when the backend answers a handleStatusChange or a handleDelete with
\* an error, the handler leaves the console's list exactly as it was and
\* posts nothing to the notifier.
C30_FailedCallLeavesListAndNotifier ==
  [][ \A c \in inflight :
        ( /\ c.answer = "error"
          /\ \/ \E syncOk \in BOOLEAN : HandleStatusChangeResume(c, syncOk)
             \/ HandleDeleteResume(c) )
        => apps' = apps /\ sheet' = sheet ]_vars

\* a delete has been answered with an error and its continuation is about to
\* run, while the list has changed since the delete button was clicked
C30_Witness ==
  \E c \in inflight :
    /\ c.op = "delete"
    /\ c.answer = "error"
    /\ c.apps # apps
    /\ apps # << >>

\* C28: whenever the version-history view lists the Version Records of a stored
\* listing as the backend holds them, the record it marks Current carries the
\* listing's current version label and package reference
C28_CurrentRecordMatchesListing ==
  ( /\ MarkedCurrent(1)
    /\ Stored(selectedAppForHistory.id)
    /\ appVersions = SelectVersions(selectedAppForHistory.id) )
  => /\ appVersions[1].version = dbApps[selectedAppForHistory.id].version
     /\ appVersions[1].apk_url = dbApps[selectedAppForHistory.id].apk_url

\* C29: handleLogout leaves the demo-session marker absent from local storage;
\* an absent marker is set again only by a sign-in (the password bypass or a
\* biometric sign-in), and every mount of the admin console that finds neither
\* a backend session nor the marker redirects to the login page.
C29_LogoutRemovesMarkerUntilSignIn ==
  [][ /\ HandleLogout => demoSession' = NoItem
      /\ (demoSession = NoItem /\ demoSession' # NoItem)
         => \/ \E authOk \in BOOLEAN : HandleLogin(authOk) /\ ~authOk /\ DemoCredentials
            \/ \E platform \in PlatformOutcomes : HandleBiometricLogin(platform)
      /\ ( /\ \E fetchOk \in BOOLEAN : AdminMount(fetchOk)
           /\ session = FALSE
           /\ demoSession = NoItem )
         => route' = "/login" /\ ~adminMounted'
    ]_vars

\* a signed-out browser that has signed in before (a credential is enrolled)
\* and is back on /admin with the console about to mount
C29_Witness ==
  /\ route = "/admin"
  /\ ~adminMounted
  /\ session = FALSE
  /\ demoSession = NoItem
  /\ biometricCred # NoItem

====
